---- MODULE Spec2Model ----
(***************************************************************************)
(* Spelling Bee tracker: the WordTracker component's state and handlers,   *)
(* the points calculator, and the hints text parsers.                      *)
(*                                                                         *)
(* Strings are sequences of one-character strings, so that toUpperCase,    *)
(* trim, split and the regular expressions of the source are computed      *)
(* character by character.  A JavaScript Set is a duplicate-free sequence  *)
(* in insertion order.  An object used as a map is a function whose        *)
(* domain is its key set.                                                  *)
(***************************************************************************)
EXTENDS Integers, Sequences, FiniteSets, TLC

VARIABLES
    foundWords,          \* WordTracker.tsx:33  Set<string>
    invalidWords,        \* WordTracker.tsx:34  Set<string>
    foundPangrams,       \* WordTracker.tsx:35  Set<string>
    allowedLetters,      \* WordTracker.tsx:36  Set<string>
    hintsData,           \* WordTracker.tsx:37  letter -> length -> count
    totalPossibleWords,  \* WordTracker.tsx:38
    hasLoadedHints,      \* WordTracker.tsx:39
    twoLetterList,       \* WordTracker.tsx:41  [{combo, count}]
    pangrams,            \* WordTracker.tsx:42
    showNewDayDialog,    \* WordTracker.tsx:43
    totalPoints,         \* WordTracker.tsx:44
    sessionLoad,         \* position of the loadExistingSession effect
    isProcessing,        \* ImageUpload.tsx:24, of the mounted ImageUpload
    ocrTasks,            \* runs of ImageUpload awaiting their worker
    hintsNotice,         \* title of the last toast of the hints loaders
    uploadedFile,        \* HintsImageUpload.tsx:25, whether a file is held
    hintsIsProcessing,   \* HintsImageUpload.tsx:26
    hintsTasks,          \* processImage runs awaiting the OCR worker
    clearTimers,         \* HintsImageUpload.tsx:211, timeouts not yet fired
    isLoading,           \* HintsFetcher.tsx:21, of the HintsFetcher that fetches
    input,               \* arguments of a function applied on its own
    output               \* what that function returned

trackerVars == <<foundWords, invalidWords, foundPangrams, allowedLetters,
                 hintsData, totalPossibleWords, hasLoadedHints, twoLetterList,
                 pangrams, showNewDayDialog, totalPoints, sessionLoad,
                 isProcessing, ocrTasks>>

uploadVars == <<hintsNotice, uploadedFile, hintsIsProcessing, hintsTasks,
                clearTimers, isLoading>>

callVars == <<input, output>>

vars == <<trackerVars, uploadVars, callVars>>

----------------------------------------------------------------------------
(* Bounds *)

MaxStaleTasks == 0   \* runs of unmounted ImageUploads in flight when one starts

MaxWordLen == 5      \* longest word handed to a function applied on its own

MaxLines == 2        \* most lines of a text handed to a parser

MaxUploads == 2      \* most processImage runs and clearing timeouts pending at once

----------------------------------------------------------------------------
(* Characters and strings *)

Range(s) == {s[i] : i \in 1..Len(s)}

LowerLetters == <<"a","b","c","d","e","f","g","h","i","j","k","l","m",
                  "n","o","p","q","r","s","t","u","v","w","x","y","z">>

UpperLetters == <<"A","B","C","D","E","F","G","H","I","J","K","L","M",
                  "N","O","P","Q","R","S","T","U","V","W","X","Y","Z">>

LowerSet == Range(LowerLetters)

UpperSet == Range(UpperLetters)

\* the upper-case letter of each lower-case letter
UpperOf == [c \in LowerSet |->
               UpperLetters[CHOOSE i \in 1..26 : LowerLetters[i] = c]]

\* [a-z]
IsLower(c) == c \in LowerSet

\* [A-Z]
IsUpper(c) == c \in UpperSet

\* [a-z] under the i flag
IsLetter(c) == IsLower(c) \/ IsUpper(c)

\* String.prototype.toUpperCase, one character
UpperChar(c) == IF IsLower(c) THEN UpperOf[c] ELSE c

toUpperCase(s) == [i \in 1..Len(s) |-> UpperChar(s[i])]

\* startsWith mistaken for includes
startsWith_Includes(word, letter) == \E i \in 1..Len(word) : word[i] = letter

\* word.startsWith(letter), letter a one-character key of the grid
startsWith(word, letter) == Len(word) >= 1 /\ word[1] = letter

\* word.substring(0, 2)
substring02(word) == SubSeq(word, 1, IF Len(word) < 2 THEN Len(word) ELSE 2)

----------------------------------------------------------------------------
(* JavaScript Set as a duplicate-free sequence in insertion order *)

SetHas(s, x) == \E i \in 1..Len(s) : s[i] = x

SetAdd(s, x) == IF SetHas(s, x) THEN s ELSE Append(s, x)

SetDelete(s, x) == SelectSeq(s, LAMBDA y : y # x)

\* new Set(array): the array's elements, first occurrences in order
RECURSIVE NewSet(_)
NewSet(arr) ==
    IF arr = <<>> THEN <<>>
    ELSE SetAdd(NewSet(SubSeq(arr, 1, Len(arr) - 1)), arr[Len(arr)])

NoDuplicates(s) == \A i, j \in 1..Len(s) : s[i] = s[j] => i = j

----------------------------------------------------------------------------
(* pointsCalculator.ts *)

\* the four-letter rule left out
calculateWordPoints_ByLength(word, isPangramArg) ==
    IF isPangramArg THEN Len(word) + 7 ELSE Len(word)

calculateWordPoints(word, isPangramArg) ==
    LET length == Len(word) IN
    IF length = 4
    THEN (IF isPangramArg THEN 8 ELSE 1)
    ELSE (IF isPangramArg THEN length + 7 ELSE length)

RECURSIVE calculateTotalPoints_NoPangrams(_, _)
\* the reduce without the look-up in the pangram set
calculateTotalPoints_NoPangrams(words, pangramSet) ==
    IF words = <<>> THEN 0
    ELSE calculateTotalPoints_NoPangrams(SubSeq(words, 1, Len(words) - 1),
                                         pangramSet)
         + calculateWordPoints(words[Len(words)], FALSE)

\* words.reduce((total, word) => total + calculateWordPoints(...), 0)
RECURSIVE calculateTotalPoints(_, _)
calculateTotalPoints(words, pangramSet) ==
    IF words = <<>> THEN 0
    ELSE calculateTotalPoints(SubSeq(words, 1, Len(words) - 1), pangramSet)
         + calculateWordPoints(words[Len(words)],
                               SetHas(pangramSet, words[Len(words)]))

----------------------------------------------------------------------------
(* WordTracker: validation *)

\* isValidWord with the allowedLetters its closure holds
isValidWord(word, allowed) ==
    IF Cardinality(allowed) = 0 THEN TRUE
    ELSE LET wordLetters == Range(toUpperCase(word))
         IN  \A letter \in wordLetters : letter \in allowed

\* the guard on an empty allowedLetters left out
isPangram_NoEmptyGuard(word, allowed) ==
    LET wordLetters == Range(toUpperCase(word))
    IN  Cardinality(allowed)
          = Cardinality({letter \in allowed : letter \in wordLetters})

\* isPangram with the allowedLetters its closure holds
isPangram(word, allowed) ==
    IF Cardinality(allowed) = 0 THEN FALSE
    ELSE LET wordLetters == Range(toUpperCase(word))
         IN  Cardinality(allowed)
               = Cardinality({letter \in allowed : letter \in wordLetters})

----------------------------------------------------------------------------
(* WordTracker: derived views *)

\* the length test of the filter left out
foundWordsForLetterLength_AnyLength(found, letter, length) ==
    Len(SelectSeq(found, LAMBDA word : startsWith(word, letter)))

\* number of found words counted against cell (letter, length)
foundWordsForLetterLength(found, letter, length) ==
    Len(SelectSeq(found, LAMBDA word :
            startsWith(word, letter) /\ Len(word) = length))

remainingCount(grid, found, letter, length) ==
    LET d == grid[letter][length]
             - foundWordsForLetterLength(found, letter, length)
    IN  IF d > 0 THEN d ELSE 0

\* the useMemo over [hintsData, foundWords]
remainingHintsDataOf(grid, found) ==
    LET kept(letter) == {length \in DOMAIN grid[letter] :
                            remainingCount(grid, found, letter, length) > 0}
        letters == {letter \in DOMAIN grid : kept(letter) # {}}
    IN  [letter \in letters |->
            [length \in kept(letter) |->
                remainingCount(grid, found, letter, length)]]

remainingHintsData == remainingHintsDataOf(hintsData, foundWords)

\* the map without Math.max
remainingTwoLetterCountsOf_NoClamp(list, found) ==
    [i \in 1..Len(list) |->
        [combo |-> list[i].combo,
         originalCount |-> list[i].count,
         remainingCount |->
             list[i].count
             - Len(SelectSeq(found, LAMBDA word :
                       Len(word) >= 2 /\ substring02(word) = list[i].combo))]]

\* the useMemo over [twoLetterList, foundWords]
remainingTwoLetterCountsOf(list, found) ==
    [i \in 1..Len(list) |->
        LET foundWordsWithCombo ==
                Len(SelectSeq(found, LAMBDA word :
                        Len(word) >= 2 /\ substring02(word) = list[i].combo))
            d == list[i].count - foundWordsWithCombo
        IN  [combo |-> list[i].combo,
             originalCount |-> list[i].count,
             remainingCount |-> IF d > 0 THEN d ELSE 0]]

remainingTwoLetterCounts == remainingTwoLetterCountsOf(twoLetterList, foundWords)

----------------------------------------------------------------------------
(* Nothing applied on its own *)

NoInput == [kind |-> "none"]

NoOutput == [fn |-> "none"]

----------------------------------------------------------------------------
(* Inputs: what the user types, what the loaders and the session hand over *)

EmptyMap == [x \in {} |-> 0]

\* text typed into the manual word box (already trimmed, non-empty)
WordInputs ==
    { <<"A","B","B","A">>,
      <<"a","b","b","a">>,
      <<"A","B","C","A">>,
      <<"B","A","C","C","A">> }

\* extractWordsFromProgress keeps letters only, upper case, length >= 4
UpperWords == {w \in WordInputs : toUpperCase(w) = w /\ Len(w) >= 4}

\* the arguments of one onHintsLoaded call, as a successful parse hands them
\* over; a caller that passes three arguments leaves the pangram count and
\* the allowed letters out (an empty list)
HintsLoads ==
    { [ hintsData |-> ("A" :> (4 :> 1)) @@ ("B" :> (5 :> 2)),
        totalWords |-> 3,
        twoLetterList |-> << [combo |-> <<"A","B">>, count |-> 1],
                             [combo |-> <<"B","A">>, count |-> 2] >>,
        pangrams |-> 1,
        allowedLetters |-> <<"A","B">> ],
      [ hintsData |-> ("A" :> ((4 :> 2) @@ (5 :> 1))) @@ ("C" :> EmptyMap),
        totalWords |-> 3,
        twoLetterList |-> <<>>,
        pangrams |-> 2,
        allowedLetters |-> <<"A","B","C">> ],
      [ hintsData |-> ("A" :> (4 :> 1)) @@ ("B" :> (5 :> 2)),
        totalWords |-> 3,
        twoLetterList |-> << [combo |-> <<"A","B">>, count |-> 3] >>,
        pangrams |-> 0,
        allowedLetters |-> <<>> ] }

\* a session saved before any hints were stored with it
BlankLoad ==
    [ hintsData |-> EmptyMap, totalWords |-> 0, twoLetterList |-> <<>>,
      pangrams |-> 0, allowedLetters |-> <<>> ]

\* lists of distinct upper-case words, as a screenshot or the found_words
\* table (UNIQUE(session_id, word)) holds them
WordLists ==
    { <<>>,
      << <<"A","B","B","A">> >>,
      << <<"A","B","C","A">> >>,
      << <<"B","A","C","C","A">> >>,
      << <<"A","B","C","A">>, <<"A","B","B","A">> >>,
      << <<"B","A","C","C","A">>, <<"A","B","C","A">> >>,
      << <<"A","B","B","A">>, <<"A","B","C","A">>, <<"B","A","C","C","A">> >> }

\* what loadGameSession resolves to: the saved load and the saved words, each
\* word saved with the validity handleWordsFound gave it under the session's
\* letters
SessionData ==
    { [ load |-> l,
        foundWords |->
            SelectSeq(ws, LAMBDA w : isValidWord(w, Range(l.allowedLetters))),
        invalidWords |->
            SelectSeq(ws, LAMBDA w : ~isValidWord(w, Range(l.allowedLetters))),
        previousDay |-> d ] :
        l \in HintsLoads \cup {BlankLoad}, ws \in WordLists, d \in BOOLEAN }

----------------------------------------------------------------------------
(* WordTracker: handlers *)

\* the effect summing without the pangram set
recomputedPoints_NoPangrams(changed, previous, found, foundPangramSet) ==
    IF changed THEN calculateTotalPoints(found, <<>>) ELSE previous

\* the passive effect on [foundWords, foundPangrams] runs when a handler
\* replaced either set, before the next event is handled
recomputedPoints(changed, previous, found, foundPangramSet) ==
    IF changed THEN calculateTotalPoints(found, foundPangramSet) ELSE previous

PointsEffect(changed) ==
    totalPoints' = recomputedPoints(changed, totalPoints,
                                    foundWords', foundPangrams')

\* ImageUpload is rendered only while hasLoadedHints: when it goes away its
\* isProcessing state is dropped and the runs it started outlive it
ImageUploadRender ==
    IF hasLoadedHints'
    THEN /\ isProcessing' = (hasLoadedHints /\ isProcessing)
         /\ ocrTasks' = IF hasLoadedHints THEN ocrTasks
                        ELSE [i \in 1..Len(ocrTasks) |->
                                [ocrTasks[i] EXCEPT !.live = FALSE]]
    ELSE /\ isProcessing' = FALSE
         /\ ocrTasks' = [i \in 1..Len(ocrTasks) |->
                            [ocrTasks[i] EXCEPT !.live = FALSE]]

RECURSIVE AddAll(_, _)
AddAll(prev, words) ==
    IF words = <<>> THEN prev
    ELSE SetAdd(AddAll(prev, SubSeq(words, 1, Len(words) - 1)),
                words[Len(words)])

\* the words taken as typed
upperWords_AsTyped(newWords) == newWords

upperWords(newWords) == [i \in 1..Len(newWords) |-> toUpperCase(newWords[i])]

\* the validity filter left out
validWords_Unfiltered(newWords, allowed) == upperWords(newWords)

validWords(newWords, allowed) ==
    SelectSeq(upperWords(newWords), LAMBDA w : isValidWord(w, allowed))

\* the pangram test outside the branch of the valid words
newPangrams_OfAllWords(newWords, allowed) ==
    SelectSeq(upperWords(newWords), LAMBDA w : isPangram(w, allowed))

newPangrams(newWords, allowed) ==
    SelectSeq(validWords(newWords, allowed), LAMBDA w : isPangram(w, allowed))

invalidWordsData(newWords, allowed) ==
    SelectSeq(upperWords(newWords), LAMBDA w : ~isValidWord(w, allowed))

\* the word state handleWordsFound reads and writes
WordState ==
    [ foundWords |-> foundWords, invalidWords |-> invalidWords,
      foundPangrams |-> foundPangrams, totalPoints |-> totalPoints ]

\* what handleWordsFound of the render whose allowedLetters is `allowed`
\* makes of the word state `st`, the points effect included
wordsFoundResult(st, newWords, allowed) ==
    LET valid == validWords(newWords, allowed)
        found == AddAll(st.foundWords, valid)
        pangramSet == AddAll(st.foundPangrams, newPangrams(newWords, allowed))
    IN  [ foundWords |-> found,
          invalidWords |->
              AddAll(st.invalidWords, invalidWordsData(newWords, allowed)),
          foundPangrams |-> pangramSet,
          totalPoints |->
              recomputedPoints(valid # <<>>, st.totalPoints,
                               found, pangramSet) ]

handleWordsFound(newWords, allowed) ==
    \E r \in {wordsFoundResult(WordState, newWords, allowed)} :
        /\ foundWords' = r.foundWords
        /\ foundPangrams' = r.foundPangrams
        /\ invalidWords' = r.invalidWords
        /\ totalPoints' = r.totalPoints

LoadExistingSession(sessionData) ==
    /\ sessionLoad = "pending"
    /\ sessionLoad' = "done"
    /\ allowedLetters' = Range(sessionData.load.allowedLetters)
    /\ totalPossibleWords' = sessionData.load.totalWords
    /\ pangrams' = sessionData.load.pangrams
    /\ twoLetterList' = sessionData.load.twoLetterList
    /\ foundWords' = NewSet(sessionData.foundWords)
    /\ invalidWords' = NewSet(sessionData.invalidWords)
    /\ hintsData' = sessionData.load.hintsData
    /\ LET loadedPangrams ==
               SelectSeq(sessionData.foundWords, LAMBDA word :
                   LET wordLetters == Range(toUpperCase(word))
                   IN  Len(sessionData.load.allowedLetters)
                         = Len(SelectSeq(sessionData.load.allowedLetters,
                                         LAMBDA letter : letter \in wordLetters)))
       IN  foundPangrams' = NewSet(loadedPangrams)
    /\ hasLoadedHints' = (sessionData.load.totalWords > 0
                          /\ Cardinality(DOMAIN sessionData.load.hintsData) > 0)
    /\ showNewDayDialog' = (showNewDayDialog \/ sessionData.previousDay)
    /\ PointsEffect(TRUE)
    /\ ImageUploadRender
    /\ UNCHANGED <<uploadVars, callVars>>

\* loadGameSession resolved to null
NoExistingSession ==
    /\ sessionLoad = "pending"
    /\ sessionLoad' = "done"
    /\ UNCHANGED <<foundWords, invalidWords, foundPangrams, allowedLetters,
                   hintsData, totalPossibleWords, hasLoadedHints, twoLetterList,
                   pangrams, showNewDayDialog, totalPoints, isProcessing,
                   ocrTasks>>
    /\ UNCHANGED <<uploadVars, callVars>>

\* The new-day AlertDialog is modal: while it is open the page behind it takes
\* no clicks or keys, so every handler a control of the page starts waits for
\* it to close.

\* what handleHintsLoaded sets, the points effect and the next render included
handleHintsLoaded(newHintsData, totalWords, newTwoLetterList, pangramCount, allowedLettersList) ==
    /\ hintsData' = newHintsData
    /\ totalPossibleWords' = totalWords
    /\ twoLetterList' = newTwoLetterList
    /\ pangrams' = pangramCount
    /\ allowedLetters' = Range(allowedLettersList)
    /\ hasLoadedHints' = TRUE
    /\ foundWords' = <<>>
    /\ invalidWords' = <<>>
    /\ foundPangrams' = <<>>
    /\ PointsEffect(TRUE)
    /\ ImageUploadRender
    /\ UNCHANGED <<showNewDayDialog, sessionLoad>>

\* HintsFetcher, the caller, is rendered only while no hints are loaded
HandleHintsLoaded(newHintsData, totalWords, newTwoLetterList, pangramCount, allowedLettersList) ==
    /\ ~showNewDayDialog
    /\ ~hasLoadedHints
    /\ handleHintsLoaded(newHintsData, totalWords, newTwoLetterList,
                         pangramCount, allowedLettersList)
    /\ UNCHANGED <<uploadVars, callVars>>

\* the manual word box is rendered only while hints are loaded
AddManualWord(manualWord) ==
    /\ ~showNewDayDialog
    /\ hasLoadedHints
    /\ handleWordsFound(<<manualWord>>, allowedLetters)
    /\ UNCHANGED <<allowedLetters, hintsData, totalPossibleWords,
                   hasLoadedHints, twoLetterList, pangrams, showNewDayDialog,
                   sessionLoad, isProcessing, ocrTasks>>
    /\ UNCHANGED <<uploadVars, callVars>>

\* "Start New Puzzle", or "Start Fresh" of the new-day dialog
ResetProgress ==
    /\ hasLoadedHints \/ showNewDayDialog
    /\ foundWords' = <<>>
    /\ invalidWords' = <<>>
    /\ foundPangrams' = <<>>
    /\ hintsData' = EmptyMap
    /\ totalPossibleWords' = 0
    /\ twoLetterList' = <<>>
    /\ pangrams' = 0
    /\ hasLoadedHints' = FALSE
    /\ showNewDayDialog' = FALSE
    /\ PointsEffect(TRUE)
    /\ ImageUploadRender
    /\ UNCHANGED <<allowedLetters, sessionLoad>>
    /\ UNCHANGED <<uploadVars, callVars>>

\* "Keep Old Puzzle"
KeepOldPuzzle ==
    /\ showNewDayDialog
    /\ showNewDayDialog' = FALSE
    /\ UNCHANGED <<foundWords, invalidWords, foundPangrams, allowedLetters,
                   hintsData, totalPossibleWords, hasLoadedHints, twoLetterList,
                   pangrams, totalPoints, sessionLoad, isProcessing, ocrTasks>>
    /\ UNCHANGED <<uploadVars, callVars>>

\* removeWord without the delete in the pangram set
removeWordResult_KeepsPangram(st, wordToRemove) ==
    LET found == SetDelete(st.foundWords, wordToRemove)
    IN  [ st EXCEPT !.foundWords = found,
                    !.totalPoints = recomputedPoints(TRUE, st.totalPoints,
                                                     found, st.foundPangrams) ]

\* what removeWord makes of the word state `st`, the points effect included
removeWordResult(st, wordToRemove) ==
    LET found == SetDelete(st.foundWords, wordToRemove)
        pangramSet == SetDelete(st.foundPangrams, wordToRemove)
    IN  [ st EXCEPT !.foundWords = found,
                    !.foundPangrams = pangramSet,
                    !.totalPoints = recomputedPoints(TRUE, st.totalPoints,
                                                     found, pangramSet) ]

\* what removeInvalidWord makes of the word state `st`
removeInvalidWordResult(st, wordToRemove) ==
    [ st EXCEPT !.invalidWords = SetDelete(st.invalidWords, wordToRemove) ]

RemoveWord(wordToRemove) ==
    /\ ~showNewDayDialog
    /\ hasLoadedHints
    /\ SetHas(foundWords, wordToRemove)
    /\ \E r \in {removeWordResult(WordState, wordToRemove)} :
           /\ foundWords' = r.foundWords
           /\ foundPangrams' = r.foundPangrams
           /\ totalPoints' = r.totalPoints
    /\ UNCHANGED <<invalidWords, allowedLetters, hintsData, totalPossibleWords,
                   hasLoadedHints, twoLetterList, pangrams, showNewDayDialog,
                   sessionLoad, isProcessing, ocrTasks>>
    /\ UNCHANGED <<uploadVars, callVars>>

RemoveInvalidWord(wordToRemove) ==
    /\ ~showNewDayDialog
    /\ hasLoadedHints
    /\ SetHas(invalidWords, wordToRemove)
    /\ invalidWords' = removeInvalidWordResult(WordState, wordToRemove).invalidWords
    /\ UNCHANGED <<foundWords, foundPangrams, allowedLetters, hintsData,
                   totalPossibleWords, hasLoadedHints, twoLetterList, pangrams,
                   showNewDayDialog, totalPoints, sessionLoad, isProcessing,
                   ocrTasks>>
    /\ UNCHANGED <<uploadVars, callVars>>

RemoveAllValidWords ==
    /\ ~showNewDayDialog
    /\ hasLoadedHints
    /\ Len(foundWords) > 0
    /\ foundWords' = <<>>
    /\ foundPangrams' = <<>>
    /\ PointsEffect(TRUE)
    /\ UNCHANGED <<invalidWords, allowedLetters, hintsData, totalPossibleWords,
                   hasLoadedHints, twoLetterList, pangrams, showNewDayDialog,
                   sessionLoad, isProcessing, ocrTasks>>
    /\ UNCHANGED <<uploadVars, callVars>>

RemoveAllInvalidWords ==
    /\ ~showNewDayDialog
    /\ hasLoadedHints
    /\ Len(invalidWords) > 0
    /\ invalidWords' = <<>>
    /\ UNCHANGED <<foundWords, foundPangrams, allowedLetters, hintsData,
                   totalPossibleWords, hasLoadedHints, twoLetterList, pangrams,
                   showNewDayDialog, totalPoints, sessionLoad, isProcessing,
                   ocrTasks>>
    /\ UNCHANGED <<uploadVars, callVars>>

----------------------------------------------------------------------------
(* ImageUpload: progress screenshot *)

\* what extractWordsFromProgress returns: Array.from(new Set(words))
ExtractedWordLists == WordLists

StaleTasks(tasks) == Len(SelectSeq(tasks, LAMBDA t : ~t.live))

\* "Extract Found Words" clicked: the run keeps the onWordsExtracted of the
\* render it was started from, up to the first await
StartProcessProgressImage ==
    /\ ~showNewDayDialog
    /\ hasLoadedHints
    /\ ~isProcessing
    /\ StaleTasks(ocrTasks) <= MaxStaleTasks
    /\ isProcessing' = TRUE
    /\ ocrTasks' = Append(ocrTasks, [kind |-> "progress",
                                     letters |-> allowedLetters, live |-> TRUE])
    /\ UNCHANGED <<foundWords, invalidWords, foundPangrams, allowedLetters,
                   hintsData, totalPossibleWords, hasLoadedHints, twoLetterList,
                   pangrams, showNewDayDialog, totalPoints, sessionLoad>>
    /\ UNCHANGED <<uploadVars, callVars>>

RemoveAt(s, i) == [j \in 1..(Len(s) - 1) |-> IF j < i THEN s[j] ELSE s[j + 1]]

\* the OCR worker answered: the rest of processProgressImage, finally included
FinishProcessProgressImage(i, extractedWords) ==
    /\ i \in 1..Len(ocrTasks)
    /\ ocrTasks[i].kind = "progress"
    /\ IF Len(extractedWords) > 0
       THEN handleWordsFound(extractedWords, ocrTasks[i].letters)
       ELSE UNCHANGED <<foundWords, invalidWords, foundPangrams, totalPoints>>
    /\ isProcessing' = IF ocrTasks[i].live THEN FALSE ELSE isProcessing
    /\ ocrTasks' = RemoveAt(ocrTasks, i)
    /\ UNCHANGED <<allowedLetters, hintsData, totalPossibleWords,
                   hasLoadedHints, twoLetterList, pangrams, showNewDayDialog,
                   sessionLoad>>
    /\ UNCHANGED <<uploadVars, callVars>>

----------------------------------------------------------------------------
(* HintsImageUpload: the component as mounted *)

NoNotice == "none"

\* the state of a HintsImageUpload that has just been mounted, no run of an
\* earlier one in flight
UploadIdle ==
    /\ hintsNotice = NoNotice
    /\ uploadedFile = FALSE
    /\ hintsIsProcessing = FALSE
    /\ hintsTasks = <<>>
    /\ clearTimers = 0
    /\ isLoading = FALSE

----------------------------------------------------------------------------
(* Specification of the tracker *)

Init ==
    /\ foundWords = <<>>
    /\ invalidWords = <<>>
    /\ foundPangrams = <<>>
    /\ allowedLetters = {}
    /\ hintsData = EmptyMap
    /\ totalPossibleWords = 0
    /\ hasLoadedHints = FALSE
    /\ twoLetterList = <<>>
    /\ pangrams = 0
    /\ showNewDayDialog = FALSE
    /\ totalPoints = 0
    /\ sessionLoad = "pending"
    /\ isProcessing = FALSE
    /\ ocrTasks = <<>>
    /\ UploadIdle
    /\ input = NoInput
    /\ output = NoOutput

Next ==
    \/ \E sessionData \in SessionData : LoadExistingSession(sessionData)
    \/ NoExistingSession
    \/ \E h \in HintsLoads :
            HandleHintsLoaded(h.hintsData, h.totalWords, h.twoLetterList,
                              h.pangrams, h.allowedLetters)
    \/ \E w \in WordInputs : AddManualWord(w)
    \/ ResetProgress
    \/ KeepOldPuzzle
    \/ \E w \in UpperWords : RemoveWord(w)
    \/ \E w \in UpperWords : RemoveInvalidWord(w)
    \/ RemoveAllValidWords
    \/ RemoveAllInvalidWords
    \/ StartProcessProgressImage
    \/ \E i \in 1..(MaxStaleTasks + 1), ws \in ExtractedWordLists :
            FinishProcessProgressImage(i, ws)

Spec == Init /\ [][Next]_vars

----------------------------------------------------------------------------
(* Properties of the tracker *)

\* the allowedLetters held by the handleWordsFound of the current render and
\* by those the runs in flight were started with
ClosureLetters ==
    {allowedLetters} \cup {ocrTasks[i].letters : i \in 1..Len(ocrTasks)}

\* what one call of handleWordsFound can be handed: a typed word, or the
\* words of a screenshot
Submissions ==
    {<<w>> : w \in WordInputs} \cup {ws \in ExtractedWordLists : Len(ws) = 3}

HasCell(grid, letter, length) ==
    letter \in DOMAIN grid /\ length \in DOMAIN grid[letter]

\* the count of a cell, 0 for a cell the grid does not hold
CellCount(grid, letter, length) ==
    IF HasCell(grid, letter, length) THEN grid[letter][length] ELSE 0

Cells(grid) == {<<l, n>> : l \in DOMAIN grid, n \in 4..12} \cup
               UNION {{<<l, n>> : n \in DOMAIN grid[l]} : l \in DOMAIN grid}

\* the found words of a cell, counted on the set of found words
FoundInCell(found, letter, length) ==
    Cardinality({w \in Range(found) :
                    Len(w) = length /\ Len(w) >= 1 /\ w[1] = letter})

Reordered(s, p) == [i \in 1..Len(s) |-> s[p[i]]]

\* C1: the remaining grid holds cell (letter, length) with value
\* G[letter][length] minus the number of found words that start with the
\* letter and have that length whenever the difference is at least 1, holds
\* no cell whose difference is 0 or negative and no cell absent from G, and is
\* the same for every order in which the found words were added.
C1_RemainingGrid ==
    LET G == hintsData
        R == remainingHintsData
        difference(l, n) == G[l][n] - FoundInCell(foundWords, l, n)
    IN  /\ \A l \in DOMAIN G : \A n \in DOMAIN G[l] :
              IF difference(l, n) >= 1
              THEN HasCell(R, l, n) /\ R[l][n] = difference(l, n)
              ELSE ~HasCell(R, l, n)
        /\ \A l \in DOMAIN R : \A n \in DOMAIN R[l] : HasCell(G, l, n)
        /\ \A p \in Permutations(1..Len(foundWords)) :
              remainingHintsDataOf(G, Reordered(foundWords, p)) = R

\* C1 witness: a cell with more found words than the grid counted is dropped
\* while another cell is still held
C1_Witness ==
    \E l, k \in DOMAIN hintsData :
        \E n \in DOMAIN hintsData[l] : \E m \in DOMAIN hintsData[k] :
            /\ hintsData[l][n] - FoundInCell(foundWords, l, n) < 0
            /\ ~HasCell(remainingHintsData, l, n)
            /\ HasCell(remainingHintsData, k, m)
            /\ Len(foundWords) >= 2

\* C2: when handleWordsFound adds one word w that was not in foundWords, the
\* remaining count of cell (first letter of w, length of w) goes down by
\* exactly 1 if it was at least 1, the cell leaving the grid at 0, and stays
\* absent if it was 0; every other cell of the remaining grid is unchanged.
C2_MonotonicReduction ==
    \A ws \in Submissions : \A A \in ClosureLetters :
    \A r \in {wordsFoundResult(WordState, ws, A)} :
        (/\ Len(r.foundWords) = Len(foundWords) + 1
         /\ SubSeq(r.foundWords, 1, Len(foundWords)) = foundWords
         /\ ~SetHas(foundWords, r.foundWords[Len(r.foundWords)]))
        => \A w \in {r.foundWords[Len(r.foundWords)]} :
           \A before \in {remainingHintsData} :
           \A after \in {remainingHintsDataOf(hintsData, r.foundWords)} :
               /\ CellCount(after, w[1], Len(w))
                    = IF CellCount(before, w[1], Len(w)) >= 1
                      THEN CellCount(before, w[1], Len(w)) - 1 ELSE 0
               /\ HasCell(after, w[1], Len(w))
                    <=> CellCount(before, w[1], Len(w)) >= 2
               /\ \A c \in Cells(hintsData) \cup Cells(before) \cup Cells(after) :
                      c # <<w[1], Len(w)>>
                      => /\ HasCell(after, c[1], c[2]) <=> HasCell(before, c[1], c[2])
                         /\ CellCount(after, c[1], c[2]) = CellCount(before, c[1], c[2])

\* C2 witness: one word was found and its cell, counted 2, is held with 1
\* beside an untouched cell of the same letter
C2_Witness ==
    /\ Len(foundWords) = 1
    /\ \E l \in DOMAIN hintsData : \E n, m \in DOMAIN hintsData[l] :
          /\ n # m
          /\ l = foundWords[1][1] /\ n = Len(foundWords[1])
          /\ hintsData[l][n] = 2
          /\ CellCount(remainingHintsData, l, n) = 1
          /\ CellCount(remainingHintsData, l, m) = hintsData[l][m]

\* the lower-case letter of each upper-case letter
LowerOf == [c \in UpperSet |->
               LowerLetters[CHOOSE i \in 1..26 : UpperLetters[i] = c]]

\* the same words typed in lower case
InLowerCase(ws) ==
    [i \in 1..Len(ws) |->
        [j \in 1..Len(ws[i]) |->
            IF ws[i][j] \in UpperSet THEN LowerOf[ws[i][j]] ELSE ws[i][j]]]

C4_Partition == Range(foundWords) \cap Range(invalidWords) = {}

HasOutsideLetter(w, A) == \E i \in 1..Len(w) : UpperChar(w[i]) \notin A

\* C6: isValidWord is true exactly when allowedLetters is empty or every
\* character of the upper-cased word is in allowedLetters; handleWordsFound
\* puts a word with a character outside its non-empty allowedLetters into
\* invalidWords and neither into foundWords nor into foundPangrams, and puts
\* every other word into foundWords.
C6_WordValidity ==
    /\ \A w \in WordInputs : \A A \in SUBSET {"A", "B", "C"} :
          isValidWord(w, A) <=> (A = {} \/ ~HasOutsideLetter(w, A))
    /\ \A ws \in Submissions : \A A \in ClosureLetters :
       \A r \in {wordsFoundResult(WordState, ws, A)} :
          \A i \in 1..Len(ws) :
          \A u \in {[j \in 1..Len(ws[i]) |-> UpperChar(ws[i][j])]} :
              IF A # {} /\ HasOutsideLetter(ws[i], A)
              THEN /\ SetHas(r.invalidWords, u)
                   /\ SetHas(r.foundWords, u) => SetHas(foundWords, u)
                   /\ SetHas(r.foundPangrams, u) => SetHas(foundPangrams, u)
              ELSE /\ SetHas(r.foundWords, u)
                   /\ SetHas(r.invalidWords, u) => SetHas(invalidWords, u)

\* C6 witness: under non-empty allowedLetters a word with a letter outside
\* them is held by invalidWords alone
C6_Witness ==
    /\ allowedLetters # {}
    /\ foundWords = <<>>
    /\ foundPangrams = <<>>
    /\ \E i \in 1..Len(invalidWords) :
          HasOutsideLetter(invalidWords[i], allowedLetters)

\* the points of a set of words, pangrams being those of pangramWords
RECURSIVE SumOfPoints(_, _)
SumOfPoints(S, pangramWords) ==
    IF S = {} THEN 0
    ELSE LET w == CHOOSE y \in S : TRUE
         IN  calculateWordPoints(w, w \in pangramWords)
               + SumOfPoints(S \ {w}, pangramWords)

\* C8: totalPoints equals the sum over the current foundWords of
\* calculateWordPoints(w, w in foundPangrams); invalidWords add nothing.
C8_TotalPoints ==
    totalPoints = SumOfPoints(Range(foundWords), Range(foundPangrams))

\* C8 witness: a pangram, a found word that is no pangram and an invalid word
\* are held together
C8_Witness ==
    /\ invalidWords # <<>>
    /\ \E i, j \in 1..Len(foundWords) :
          /\ SetHas(foundPangrams, foundWords[i])
          /\ ~SetHas(foundPangrams, foundWords[j])
    /\ totalPoints > 0

----------------------------------------------------------------------------
(* Text: the string operations the parsers are written with *)

Digits == <<"0","1","2","3","4","5","6","7","8","9">>

DigitSet == Range(Digits)

DigitValue == [c \in DigitSet |-> (CHOOSE i \in 1..10 : Digits[i] = c) - 1]

\* \d
IsDigit(c) == c \in DigitSet

\* \s, of the characters a pasted or recognised text holds here
IsSpace(c) == c \in {" ", "\t", "\n"}

SetMin(S) == CHOOSE x \in S : \A y \in S : x <= y

SetMax(S) == CHOOSE x \in S : \A y \in S : x >= y

\* s.slice(i) counted from 1: the characters from position i on
SliceFrom(s, i) == SubSeq(s, i, Len(s))

\* String.prototype.trim
trim(s) ==
    LET kept == {i \in 1..Len(s) : ~IsSpace(s[i])}
    IN  IF kept = {} THEN <<>> ELSE SubSeq(s, SetMin(kept), SetMax(kept))

\* String.prototype.split on a regular expression [delims]+ : the pieces
\* between the maximal runs of delimiters, empty pieces at the ends included
RECURSIVE split(_, _)
split(s, delims) ==
    LET at == {i \in 1..Len(s) : s[i] \in delims}
    IN  IF at = {} THEN <<s>>
        ELSE LET i == SetMin(at)
                 after == {j \in i..Len(s) : s[j] \notin delims}
                 j == IF after = {} THEN Len(s) + 1 ELSE SetMin(after)
             IN  <<SubSeq(s, 1, i - 1)>> \o split(SliceFrom(s, j), delims)

\* text.split('\n')
RECURSIVE splitLines(_)
splitLines(text) ==
    LET at == {i \in 1..Len(text) : text[i] = "\n"}
    IN  IF at = {} THEN <<text>>
        ELSE <<SubSeq(text, 1, SetMin(at) - 1)>>
                \o splitLines(SliceFrom(text, SetMin(at) + 1))

\* array.slice(0, -1)
sliceDropLast(arr) == SubSeq(arr, 1, Len(arr) - 1)

\* the number a run of digits writes
RECURSIVE Number(_)
Number(ds) ==
    IF ds = <<>> THEN 0
    ELSE 10 * Number(sliceDropLast(ds)) + DigitValue[ds[Len(ds)]]

\* the longest run of digits s starts with
leadingDigits(s) ==
    LET stop == {i \in 1..Len(s) : ~IsDigit(s[i])}
    IN  IF stop = {} THEN s ELSE SubSeq(s, 1, SetMin(stop) - 1)

NaN == [nan |-> TRUE, val |-> 0]

\* parseInt(value, 10): leading white space, a sign, then digits
parseInt(value) ==
    LET body == {i \in 1..Len(value) : ~IsSpace(value[i])}
        t == IF body = {} THEN <<>> ELSE SliceFrom(value, SetMin(body))
        signed == Len(t) >= 1 /\ t[1] \in {"-", "+"}
        ds == leadingDigits(IF signed THEN SliceFrom(t, 2) ELSE t)
    IN  IF ds = <<>> THEN NaN
        ELSE [nan |-> FALSE,
              val |-> IF signed /\ t[1] = "-" THEN 0 - Number(ds)
                      ELSE Number(ds)]

\* line.match(/\d+/g).map(Number): the numbers of the runs of digits
RECURSIVE digitRuns(_)
digitRuns(s) ==
    LET at == {i \in 1..Len(s) : IsDigit(s[i])}
    IN  IF at = {} THEN <<>>
        ELSE LET run == leadingDigits(SliceFrom(s, SetMin(at)))
             IN  <<Number(run)>>
                    \o digitRuns(SliceFrom(s, SetMin(at) + Len(run)))

\* whether s reads `word` from position i on, letter case aside
ReadsAt(s, i, word) ==
    /\ i + Len(word) - 1 <= Len(s)
    /\ \A k \in 1..Len(word) : UpperChar(s[i + k - 1]) = word[k]

RECURSIVE SumSeq(_)
SumSeq(ns) == IF ns = <<>> THEN 0 ELSE SumSeq(sliceDropLast(ns)) + ns[Len(ns)]

----------------------------------------------------------------------------
(* HintsImageUpload.parseHintsFromText *)

\* the parsers' null
Null == [isNull |-> TRUE]

NoMatch == [matched |-> FALSE]

skipSpaces(s) ==
    LET body == {i \in 1..Len(s) : ~IsSpace(s[i])}
    IN  IF body = {} THEN <<>> ELSE SliceFrom(s, SetMin(body))

\* /PANGRAMS?:\s*(\d+)/i matching from position i
pangramAt(line, i) ==
    /\ ReadsAt(line, i, <<"P","A","N","G","R","A","M">>)
    /\ LET j == i + 7
           k == IF j <= Len(line) /\ UpperChar(line[j]) = "S" THEN j + 1 ELSE j
       IN  /\ k <= Len(line)
           /\ line[k] = ":"
           /\ LET rest == skipSpaces(SliceFrom(line, k + 1))
              IN  rest # <<>> /\ IsDigit(rest[1])

\* line.match(/PANGRAMS?:\s*(\d+)/i): the leftmost match and its group
pangramMatch(line) ==
    LET at == {i \in 1..Len(line) : pangramAt(line, i)}
    IN  IF at = {} THEN NoMatch
        ELSE LET i == SetMin(at)
                 k == IF i + 7 <= Len(line) /\ UpperChar(line[i + 7]) = "S"
                      THEN i + 8 ELSE i + 7
             IN  [matched |-> TRUE,
                  group1 |-> leadingDigits(skipSpaces(SliceFrom(line, k + 1)))]

\* line.match(/^([a-z])[:\s]+(.+)$/i): the run of colons and white space is
\* as long as it can be while one character is left for the second group
letterMatch(line) ==
    IF Len(line) >= 1 /\ IsLetter(line[1])
    THEN LET stop == {i \in 2..Len(line) :
                         ~(line[i] = ":" \/ IsSpace(line[i]))}
             runEnd == IF stop = {} THEN Len(line) ELSE SetMin(stop) - 1
         IN  IF runEnd = 1 THEN NoMatch
             ELSE IF runEnd < Len(line)
                  THEN [matched |-> TRUE, group1 |-> line[1],
                        group2 |-> SliceFrom(line, runEnd + 1)]
             ELSE IF runEnd >= 3
                  THEN [matched |-> TRUE, group1 |-> line[1],
                        group2 |-> <<line[Len(line)]>>]
             ELSE NoMatch
    ELSE NoMatch

\* the trimmed, non-empty lines of the text
textLines(text) ==
    SelectSeq([i \in 1..Len(splitLines(text)) |-> trim(splitLines(text)[i])],
              LAMBDA l : Len(l) > 0)

\* the allowed letters read off the first line: seven letters, spaced or not
firstLineLetters(lines) ==
    IF lines = <<>> THEN <<>>
    ELSE LET firstLine == lines[1]
             pieces == IF " " \in Range(firstLine)
                       THEN LET parts == split(firstLine, {" ", "\t"})
                            IN  [i \in 1..Len(parts) |-> toUpperCase(parts[i])]
                       ELSE [i \in 1..Len(firstLine) |->
                                <<UpperChar(firstLine[i])>>]
             letters == SelectSeq(pieces,
                                  LAMBDA l : Len(l) = 1 /\ IsUpper(l[1]))
         IN  IF /\ \A i \in 1..Len(firstLine) :
                        IsLetter(firstLine[i]) \/ IsSpace(firstLine[i])
                /\ Len(firstLine) >= 7
                /\ Len(letters) = 7
             THEN [i \in 1..7 |-> letters[i][1]]
             ELSE <<>>

\* the tokens that stand for an empty cell
TextZeroMarkers == {<<"-">>, <<"O">>, <<"0">>}

\* the count a cell token stands for
cellCount(value, zeroMarkers) ==
    IF value \in zeroMarkers THEN [nan |-> FALSE, val |-> 0]
    ELSE parseInt(value)

\* the row without the test count > 0
rowOf_StoresZeros(values, zeroMarkers) ==
    LET stored == {i \in 1..Len(values) :
                      ~cellCount(values[i], zeroMarkers).nan}
    IN  [cells |-> [length \in {3 + i : i \in stored} |->
                        cellCount(values[length - 3], zeroMarkers).val],
         words |-> SumSeq([i \in 1..Len(values) |->
                              IF i \in stored
                              THEN cellCount(values[i], zeroMarkers).val
                              ELSE 0])]

\* the row a list of cell tokens makes: token idx (from 0) is length 4 + idx
rowOf(values, zeroMarkers) ==
    LET stored == {i \in 1..Len(values) :
                      /\ ~cellCount(values[i], zeroMarkers).nan
                      /\ cellCount(values[i], zeroMarkers).val > 0}
    IN  [cells |-> [length \in {3 + i : i \in stored} |->
                        cellCount(values[length - 3], zeroMarkers).val],
         words |-> SumSeq([i \in 1..Len(values) |->
                              IF i \in stored
                              THEN cellCount(values[i], zeroMarkers).val
                              ELSE 0])]

\* the body of the loop over the lines
textLineStep(acc, line, allowed) ==
    IF pangramMatch(line).matched
    THEN [acc EXCEPT !.pangrams = parseInt(pangramMatch(line).group1).val]
    ELSE IF ~letterMatch(line).matched THEN acc
    ELSE LET letter == UpperChar(letterMatch(line).group1)
             pieces == split(letterMatch(line).group2,
                             {" ", "\t", "|", ",", ";"})
             values == sliceDropLast(
                           SelectSeq([i \in 1..Len(pieces) |-> trim(pieces[i])],
                                     LAMBDA v : Len(v) > 0))
             row == rowOf(values, TextZeroMarkers)
         IN  IF ~IsUpper(letter) \/ ~SetHas(allowed, letter) THEN acc
             ELSE IF Len(values) > 0
                  THEN [acc EXCEPT
                          !.hintsData = (letter :> row.cells) @@ acc.hintsData,
                          !.totalWords = acc.totalWords + row.words]
                  ELSE acc

RECURSIVE textLoop(_, _)
textLoop(lines, allowed) ==
    IF lines = <<>>
    THEN [hintsData |-> EmptyMap, totalWords |-> 0, pangrams |-> 0]
    ELSE textLineStep(textLoop(sliceDropLast(lines), allowed),
                      lines[Len(lines)], allowed)

parseHintsFromText(text) ==
    LET lines == textLines(text)
        allowed == firstLineLetters(lines)
        acc == textLoop(lines, allowed)
    IN  IF Cardinality(DOMAIN acc.hintsData) = 0 THEN Null
        ELSE [isNull |-> FALSE, hintsData |-> acc.hintsData,
              totalWords |-> acc.totalWords, pangrams |-> acc.pangrams,
              allowedLetters |-> allowed]

----------------------------------------------------------------------------
(* HintsFetcher.parseHintsFromContent, rows written "letter: counts" *)

\* line.match(/^([a-z]):\s*(.+)$/i): the white space after the colon is as
\* long as it can be while one character is left for the second group
colonLetterMatch(line) ==
    IF Len(line) >= 2 /\ IsLetter(line[1]) /\ line[2] = ":"
    THEN LET stop == {i \in 3..Len(line) : ~IsSpace(line[i])}
         IN  IF stop # {}
             THEN [matched |-> TRUE, group1 |-> line[1],
                   group2 |-> SliceFrom(line, SetMin(stop))]
             ELSE IF Len(line) >= 3
                  THEN [matched |-> TRUE, group1 |-> line[1],
                        group2 |-> <<line[Len(line)]>>]
             ELSE NoMatch
    ELSE NoMatch

\* the one token that stands for an empty cell
ColonZeroMarkers == {<<"-">>}

colonLineStep(acc, line) ==
    IF ~colonLetterMatch(line).matched THEN acc
    ELSE LET letter == UpperChar(colonLetterMatch(line).group1)
             values == sliceDropLast(split(colonLetterMatch(line).group2,
                                           {" ", "\t"}))
             row == rowOf(values, ColonZeroMarkers)
         IN  IF Len(values) > 0
             THEN [acc EXCEPT
                     !.hintsData = (letter :> row.cells) @@ acc.hintsData,
                     !.totalWords = acc.totalWords + row.words]
             ELSE acc

RECURSIVE colonLoop(_)
colonLoop(lines) ==
    IF lines = <<>> THEN [hintsData |-> EmptyMap, totalWords |-> 0]
    ELSE colonLineStep(colonLoop(sliceDropLast(lines)), lines[Len(lines)])

parseHintsFromContent_ColonRows(content) ==
    LET raw == splitLines(content)
        lines == [i \in 1..Len(raw) |-> trim(raw[i])]
        acc == colonLoop(lines)
    IN  IF Cardinality(DOMAIN acc.hintsData) = 0 THEN Null
        ELSE [isNull |-> FALSE, hintsData |-> acc.hintsData,
              totalWords |-> acc.totalWords]

----------------------------------------------------------------------------
(* HintsFetcher.parseHintsFromContent, rows under a header of lengths *)

DefaultColumnLengths == <<4, 5, 6, 7, 8, 9, 10, 11, 12>>

\* .filter(n => n >= 4 && n <= 12)
columnNumbers(ns) == SelectSeq(ns, LAMBDA n : n >= 4 /\ n <= 12)

\* the columns a line gives as header, << >> when it is none
headerOf(line) ==
    LET tokens == split(line, {" ", "\t"})
        allDigits(t) == Len(t) >= 1 /\ \A i \in 1..Len(t) : IsDigit(t[i])
    IN  IF /\ ReadsAt(line, 1, <<"L","E","T","T","E","R">>)
           /\ Len(columnNumbers(digitRuns(line))) >= 2
        THEN columnNumbers(digitRuns(line))
        ELSE IF /\ Len(tokens) >= 3
                /\ \A i \in 1..Len(tokens) : allDigits(tokens[i])
                /\ Len(columnNumbers([i \in 1..Len(tokens) |->
                                         Number(tokens[i])])) >= 2
             THEN columnNumbers([i \in 1..Len(tokens) |-> Number(tokens[i])])
             ELSE <<>>

\* the loop over the lines that stops at the first header
findColumnLengths(lines) ==
    LET headers == {i \in 1..Len(lines) : headerOf(lines[i]) # <<>>}
    IN  IF headers = {} THEN DefaultColumnLengths
        ELSE headerOf(lines[SetMin(headers)])

\* /TOTAL\s*$/i
endsWithTotal(line) ==
    \E i \in 1..Len(line) :
        /\ ReadsAt(line, i, <<"T","O","T","A","L">>)
        /\ \A k \in (i + 5)..Len(line) : IsSpace(line[k])

skippedLine(line) ==
    \/ ReadsAt(line, 1, <<"L","E","T","T","E","R">>)
    \/ ReadsAt(line, 1, <<"T","O","T","A","L">>)
    \/ ReadsAt(skipSpaces(line), 1, <<"T","O","T","A","L">>)
    \/ endsWithTotal(line)
    \/ ~(Len(line) >= 1 /\ IsUpper(line[1]))

\* the counts of a row: the last number goes when it is the sum of the others
rowCounts(numbers) ==
    IF /\ Len(numbers) > 1
       /\ numbers[Len(numbers)] = SumSeq(sliceDropLast(numbers))
    THEN sliceDropLast(numbers)
    ELSE numbers

headerLineStep(acc, line, columnLengths) ==
    IF skippedLine(line) THEN acc
    ELSE LET firstChar == UpperChar(line[1])
             numbers == digitRuns(SliceFrom(line, 2))
             counts == rowCounts(numbers)
             used == {i \in 1..Len(counts) :
                         i <= Len(columnLengths) /\ counts[i] > 0}
             lengths == {columnLengths[i] : i \in used}
             cells == [length \in lengths |->
                          counts[SetMax({i \in used :
                                            columnLengths[i] = length})]]
         IN  IF ~IsUpper(firstChar) \/ Len(numbers) = 0 THEN acc
             ELSE [acc EXCEPT
                     !.hintsData = (firstChar :> cells) @@ acc.hintsData,
                     !.totalWords =
                         acc.totalWords
                           + SumSeq([i \in 1..Len(counts) |->
                                        IF i \in used THEN counts[i] ELSE 0])]

RECURSIVE headerLoop(_, _)
headerLoop(lines, columnLengths) ==
    IF lines = <<>> THEN [hintsData |-> EmptyMap, totalWords |-> 0]
    ELSE headerLineStep(headerLoop(sliceDropLast(lines), columnLengths),
                        lines[Len(lines)], columnLengths)

parseHintsFromContent_HeaderAware(content) ==
    LET lines == textLines(content)
        acc == headerLoop(lines, findColumnLengths(lines))
    IN  IF Cardinality(DOMAIN acc.hintsData) = 0 THEN Null
        ELSE [isNull |-> FALSE, hintsData |-> acc.hintsData,
              totalWords |-> acc.totalWords]

----------------------------------------------------------------------------
(* parseTwoLetterList, the three variants *)

\* [:\s\-]
ComboSeparators == {":", "-", " ", "\t"}

\* [:\s\-\(]
ComboSeparatorsParen == ComboSeparators \cup {"("}

\* two letters, a run of separators, a run of digits, read from position i:
\* the groups and the position after the digits
comboCountAt(s, i, separators) ==
    IF /\ i + 2 <= Len(s)
       /\ IsLetter(s[i]) /\ IsLetter(s[i + 1])
       /\ s[i + 2] \in separators
    THEN LET stop == {k \in (i + 2)..Len(s) : s[k] \notin separators}
         IN  IF stop = {} THEN NoMatch
             ELSE IF ~IsDigit(s[SetMin(stop)]) THEN NoMatch
             ELSE LET digits == leadingDigits(SliceFrom(s, SetMin(stop)))
                  IN  [matched |-> TRUE, group1 |-> SubSeq(s, i, i + 1),
                       group2 |-> digits, next |-> SetMin(stop) + Len(digits)]
    ELSE NoMatch

\* line.matchAll(/([A-Z]{2})[:\s\-]+(\d+)/gi): the matches from left to right,
\* each search starting where the match before it ended
RECURSIVE comboCountMatches(_)
comboCountMatches(line) ==
    LET at == {i \in 1..Len(line) : comboCountAt(line, i, ComboSeparators).matched}
    IN  IF at = {} THEN <<>>
        ELSE LET m == comboCountAt(line, SetMin(at), ComboSeparators)
             IN  <<m>> \o comboCountMatches(SliceFrom(line, m.next))

\* results.findIndex(r => r.combo === combo), from 1, 0 when there is none
findIndex(results, combo) ==
    LET at == {i \in 1..Len(results) : results[i].combo = combo}
    IN  IF at = {} THEN 0 ELSE SetMin(at)

\* the count added to the entry of the combo, a new entry when it has none
accumulate(results, combo, count) ==
    IF findIndex(results, combo) > 0
    THEN [results EXCEPT ![findIndex(results, combo)].count = @ + count]
    ELSE Append(results, [combo |-> combo, count |-> count])

\* matches.forEach of the counted branch
RECURSIVE accumulateMatches(_, _)
accumulateMatches(results, matches) ==
    IF matches = <<>> THEN results
    ELSE LET done == accumulateMatches(results, sliceDropLast(matches))
             match == matches[Len(matches)]
             combo == toUpperCase(match.group1)
             count == parseInt(match.group2).val
         IN  IF Len(combo) = 2 /\ count > 0
             THEN accumulate(done, combo, count)
             ELSE done

LetterIndex(c) == CHOOSE i \in 1..26 : UpperLetters[i] = c

\* a.localeCompare(b) < 0 for two combos of upper-case letters
comboBefore(a, b) ==
    \/ LetterIndex(a[1]) < LetterIndex(b[1])
    \/ a[1] = b[1] /\ LetterIndex(a[2]) < LetterIndex(b[2])

\* results.sort((a, b) => a.combo.localeCompare(b.combo)): the sort is stable
RECURSIVE sortByCombo(_)
sortByCombo(results) ==
    IF results = <<>> THEN <<>>
    ELSE LET sorted == sortByCombo(sliceDropLast(results))
             last == results[Len(results)]
             after == {i \in 1..Len(sorted) : comboBefore(last.combo, sorted[i].combo)}
             at == IF after = {} THEN Len(sorted) + 1 ELSE SetMin(after)
         IN  SubSeq(sorted, 1, at - 1) \o <<last>> \o SliceFrom(sorted, at)

\* HintsImageUpload.parseTwoLetterList: the loop over the lines
RECURSIVE uploadComboLoop(_)
uploadComboLoop(lines) ==
    IF lines = <<>> THEN <<>>
    ELSE accumulateMatches(uploadComboLoop(sliceDropLast(lines)),
                           comboCountMatches(lines[Len(lines)]))

parseTwoLetterList_Upload(text) ==
    LET raw == splitLines(text)
    IN  sortByCombo(uploadComboLoop([i \in 1..Len(raw) |-> trim(raw[i])]))

\* word.replace(/[^A-Za-z]/g, '').toUpperCase()
lettersOnly(word) == toUpperCase(SelectSeq(word, LAMBDA c : IsLetter(c)))

\* the two-letter tokens of a line that holds no counted combo
bareCombos(line) ==
    LET pieces == split(line, {" ", "\t", ",", ";", "|"})
    IN  SelectSeq([i \in 1..Len(pieces) |-> lettersOnly(pieces[i])],
                  LAMBDA word : Len(word) = 2)

\* words.forEach of the fallback branch: a combo not yet listed enters with 0
RECURSIVE addBare(_, _, _)
addBare(results, combos, count) ==
    IF combos = <<>> THEN results
    ELSE LET done == addBare(results, sliceDropLast(combos), count)
             combo == combos[Len(combos)]
         IN  IF findIndex(done, combo) > 0 THEN done
             ELSE Append(done, [combo |-> combo, count |-> count])

\* HintsFetcher.parseTwoLetterList read line by line: the loop over the lines
RECURSIVE linesComboLoop(_)
linesComboLoop(lines) ==
    IF lines = <<>> THEN <<>>
    ELSE LET done == linesComboLoop(sliceDropLast(lines))
             matches == comboCountMatches(lines[Len(lines)])
         IN  IF Len(matches) > 0 THEN accumulateMatches(done, matches)
             ELSE addBare(done, bareCombos(lines[Len(lines)]), 0)

parseTwoLetterList_Lines(text) ==
    IF trim(text) = <<>> THEN <<>>
    ELSE LET raw == splitLines(text)
         IN  sortByCombo(linesComboLoop([i \in 1..Len(raw) |-> trim(raw[i])]))

\* text.replace(/[\n\r]+/g, ' ')
RECURSIVE flattenLines(_)
flattenLines(text) ==
    LET at == {i \in 1..Len(text) : text[i] = "\n"}
    IN  IF at = {} THEN text
        ELSE LET i == SetMin(at)
                 after == {j \in i..Len(text) : text[j] # "\n"}
                 j == IF after = {} THEN Len(text) + 1 ELSE SetMin(after)
             IN  SubSeq(text, 1, i - 1) \o <<" ">>
                    \o flattenLines(SliceFrom(text, j))

\* /([A-Z]{2})[:\s\-\(]+(\d+)[\)]*(?:\s|$|,)/gi read from position i: after
\* the digits and the closing parentheses come white space, a comma or the end
closedComboCountAt(s, i) ==
    LET m == comboCountAt(s, i, ComboSeparatorsParen)
    IN  IF ~m.matched THEN NoMatch
        ELSE LET stop == {k \in m.next..Len(s) : s[k] # ")"}
                 e == IF stop = {} THEN Len(s) + 1 ELSE SetMin(stop)
             IN  IF e > Len(s) THEN [m EXCEPT !.next = e]
                 ELSE IF IsSpace(s[e]) \/ s[e] = "," THEN [m EXCEPT !.next = e + 1]
                 ELSE NoMatch

\* the loop on regex1.exec(allText): every counted combo is pushed
RECURSIVE flatCountedCombos(_)
flatCountedCombos(allText) ==
    LET at == {i \in 1..Len(allText) : closedComboCountAt(allText, i).matched}
    IN  IF at = {} THEN <<>>
        ELSE LET m == closedComboCountAt(allText, SetMin(at))
                 combo == toUpperCase(m.group1)
                 count == parseInt(m.group2).val
             IN  (IF Len(combo) = 2 /\ count > 0
                  THEN <<[combo |-> combo, count |-> count]>> ELSE <<>>)
                    \o flatCountedCombos(SliceFrom(allText, m.next))

\* /([A-Z]{2})(?:\s|$|,)/gi read from position i
bareComboAt(s, i) ==
    /\ i + 1 <= Len(s)
    /\ IsLetter(s[i]) /\ IsLetter(s[i + 1])
    /\ (i + 2 > Len(s) \/ IsSpace(s[i + 2]) \/ s[i + 2] = ",")

\* the loop on regex2.exec(allText): the combos in the order they are read
RECURSIVE flatBareCombos(_)
flatBareCombos(allText) ==
    LET at == {i \in 1..Len(allText) : bareComboAt(allText, i)}
    IN  IF at = {} THEN <<>>
        ELSE LET i == SetMin(at)
             IN  <<toUpperCase(SubSeq(allText, i, i + 1))>>
                    \o flatBareCombos(SliceFrom(allText, i + 3))

\* HintsFetcher.parseTwoLetterList read as one flattened text
parseTwoLetterList_Flat(text) ==
    IF trim(text) = <<>> THEN <<>>
    ELSE LET allText == flattenLines(text)
             counted == flatCountedCombos(allText)
         IN  sortByCombo(IF Len(counted) = 0
                         THEN addBare(<<>>, flatBareCombos(allText), 1)
                         ELSE counted)

----------------------------------------------------------------------------
(* The word functions applied on their own *)

\* every string of at most n characters of S
RECURSIVE StringsUpTo(_, _)
StringsUpTo(S, n) ==
    IF n = 0 THEN {<<>>}
    ELSE LET shorter == StringsUpTo(S, n - 1)
         IN  shorter \cup {Append(w, c) : w \in shorter, c \in S}

CallWords == StringsUpTo({"A", "b", "C"}, MaxWordLen)

CallLetterSets == SUBSET {"A", "B", "C"}

TrackerIdle ==
    /\ foundWords = <<>>
    /\ invalidWords = <<>>
    /\ foundPangrams = <<>>
    /\ allowedLetters = {}
    /\ hintsData = EmptyMap
    /\ totalPossibleWords = 0
    /\ hasLoadedHints = FALSE
    /\ twoLetterList = <<>>
    /\ pangrams = 0
    /\ showNewDayDialog = FALSE
    /\ totalPoints = 0
    /\ sessionLoad = "pending"
    /\ isProcessing = FALSE
    /\ ocrTasks = <<>>

\* words of a found list handed to calculateTotalPoints
PointsWords ==
    { <<"A","B","L","E">>, <<"P","U","D","D","L","E">>, <<"C","A","B","L","E">> }

\* the found lists (no word twice) and the pangram sets handed over with them
PointsWordLists ==
    {ws \in StringsUpTo(PointsWords, 2) :
        \A i, j \in 1..Len(ws) : ws[i] = ws[j] => i = j}

WordsInit ==
    /\ TrackerIdle
    /\ UploadIdle
    /\ input \in [kind : {"word"}, word : CallWords,
                  allowed : CallLetterSets, isPangram : BOOLEAN]
               \cup [kind : {"words"}, words : PointsWordLists,
                     pangrams : PointsWordLists]
    /\ output = NoOutput

CallCalculateTotalPoints ==
    /\ input.kind = "words"
    /\ output = NoOutput
    /\ output' = [fn |-> "calculateTotalPoints",
                  value |-> calculateTotalPoints(input.words, input.pangrams)]
    /\ UNCHANGED <<trackerVars, uploadVars, input>>

CallIsValidWord ==
    /\ input.kind = "word"
    /\ output = NoOutput
    /\ output' = [fn |-> "isValidWord",
                  value |-> isValidWord(input.word, input.allowed)]
    /\ UNCHANGED <<trackerVars, uploadVars, input>>

CallIsPangram ==
    /\ input.kind = "word"
    /\ output = NoOutput
    /\ output' = [fn |-> "isPangram",
                  value |-> isPangram(input.word, input.allowed)]
    /\ UNCHANGED <<trackerVars, uploadVars, input>>

CallCalculateWordPoints ==
    /\ input.kind = "word"
    /\ output = NoOutput
    /\ output' = [fn |-> "calculateWordPoints",
                  value |-> calculateWordPoints(input.word, input.isPangram)]
    /\ UNCHANGED <<trackerVars, uploadVars, input>>

WordsNext ==
    \/ CallIsValidWord
    \/ CallIsPangram
    \/ CallCalculateWordPoints
    \/ CallCalculateTotalPoints

WordsSpec == WordsInit /\ [][WordsNext]_vars

\* the distinct letters of the upper-cased word
LettersOf(w) == {UpperChar(w[i]) : i \in 1..Len(w)}

\* C5 as claimed: isPangram(w) is true if and only if isValidWord(w) is true
\* and the distinct letters of upper-cased w are a superset of A, the empty A
\* included.
C5_PangramLaw ==
    output.fn = "isPangram"
    => (output.value
          <=> (/\ isValidWord(input.word, input.allowed)
               /\ input.allowed \subseteq LettersOf(input.word)))

\* C5 as amended: isPangram(w) is true if and only if A is not empty and the
\* distinct letters of upper-cased w are a superset of A, whether or not
\* isValidWord(w) is true.
C5_PangramLawAmended ==
    output.fn = "isPangram"
    => (output.value
          <=> (/\ input.allowed # {}
               /\ input.allowed \subseteq LettersOf(input.word)))

\* C5 witness: isPangram answered true for a word that holds every allowed
\* letter and a letter that is not allowed
C5_Witness ==
    /\ output.fn = "isPangram"
    /\ output.value
    /\ input.allowed # {}
    /\ ~(LettersOf(input.word) \subseteq input.allowed)

\* C7: calculateWordPoints gives a word of length 4 one point, 8 as a
\* pangram, and a word of length n >= 5 n points, n + 7 as a pangram; the
\* pangram bonus is 7 for every word of length at least 4.
C7_WordPoints ==
    output.fn = "calculateWordPoints"
    => LET n == Len(input.word)
       IN  /\ n = 4 => output.value = IF input.isPangram THEN 8 ELSE 1
           /\ n >= 5 => output.value = IF input.isPangram THEN n + 7 ELSE n
           /\ n >= 4 => calculateWordPoints(input.word, TRUE)
                          - calculateWordPoints(input.word, FALSE) = 7

\* C7 witness: a four-letter pangram scored 8
C7_Witness ==
    /\ output.fn = "calculateWordPoints"
    /\ Len(input.word) = 4
    /\ input.isPangram
    /\ output.value = 8

----------------------------------------------------------------------------
(* The parsers applied on their own *)

\* lines a hints page, a screenshot of it or a stray paste holds
PastedLines ==
    {
      \* D E L M N P U
      <<"D"," ","E"," ","L"," ","M"," ","N"," ","P"," ","U">>,
      \* PUDELMN
      <<"P","U","D","E","L","M","N">>,
      \* d: 2 1 - 3
      <<"d",":"," ","2"," ","1"," ","-"," ","3">>,
      \* D 2 1 3
      <<"D"," ","2"," ","1"," ","3">>,
      \* p: - - 5
      <<"p",":"," ","-"," ","-"," ","5">>,
      \* e:\t1 2 3
      <<"e",":","\t","1"," ","2"," ","3">>,
      \* A12
      <<"A","1","2">>,
      \* Pangrams: 1
      <<"P","a","n","g","r","a","m","s",":"," ","1">>,
      \* 4 5 6
      <<"4"," ","5"," ","6">>,
      \* TOTAL 5
      <<"T","O","T","A","L"," ","5">>,
      \* d: 1 1
      <<"d",":"," ","1"," ","1">>,
      \* PUDDLMN
      <<"P","U","D","D","L","M","N">>,
      \* e: 2 4 2 8
      <<"e",":"," ","2"," ","4"," ","2"," ","8">>,
      \* A 2 - 1
      <<"A"," ","2"," ","-"," ","1">>,
      \* E: 0 2 x 1 9
      <<"E",":"," ","0"," ","2"," ","x"," ","1"," ","9">>,
      \* d: 2 1 3 6
      <<"d",":"," ","2"," ","1"," ","3"," ","6">>,
      \* d: 2 1 -
      <<"d",":"," ","2"," ","1"," ","-">>,
      \* p: 3 2 1 8
      <<"p",":"," ","3"," ","2"," ","1"," ","8">>,
      \* (a blank)
      <<" ">>  }

\* every list of at most n of the lines
RECURSIVE LineListsUpTo(_)
LineListsUpTo(n) ==
    IF n = 0 THEN {<<>>}
    ELSE LET shorter == LineListsUpTo(n - 1)
         IN  shorter \cup {Append(ls, l) : ls \in shorter, l \in PastedLines}

\* the lines joined with '\n'
RECURSIVE joinLines(_)
joinLines(ls) ==
    IF ls = <<>> THEN <<>>
    ELSE IF Len(ls) = 1 THEN ls[1]
    ELSE joinLines(sliceDropLast(ls)) \o <<"\n">> \o ls[Len(ls)]

\* the basic grid: "D E L M N P U", "d: 2 1 -", "p: 3 2 1 8"
BasicGridText ==
    joinLines(<< <<"D"," ","E"," ","L"," ","M"," ","N"," ","P"," ","U">>,
                 <<"d",":"," ","2"," ","1"," ","-">>,
                 <<"p",":"," ","3"," ","2"," ","1"," ","8">> >>)

\* a grid with two rows of one letter: "PUDDLMN", "d: 2 1 3 6", "d: 1 1 2"
RepeatedRowText ==
    joinLines(<< <<"P","U","D","D","L","M","N">>,
                 <<"d",":"," ","2"," ","1"," ","3"," ","6">>,
                 <<"d",":"," ","1"," ","1"," ","2">> >>)

PastedTexts ==
    {joinLines(ls) : ls \in LineListsUpTo(MaxLines)}
        \cup {BasicGridText, RepeatedRowText}

ParseInit ==
    /\ TrackerIdle
    /\ UploadIdle
    /\ input \in [kind : {"text"}, text : PastedTexts]
    /\ output = NoOutput

CallParseHintsFromText ==
    /\ input.kind = "text"
    /\ output = NoOutput
    /\ output' = [fn |-> "parseHintsFromText",
                  value |-> parseHintsFromText(input.text)]
    /\ UNCHANGED <<trackerVars, uploadVars, input>>

CallParseHintsFromContent_ColonRows ==
    /\ input.kind = "text"
    /\ output = NoOutput
    /\ output' = [fn |-> "parseHintsFromContent_ColonRows",
                  value |-> parseHintsFromContent_ColonRows(input.text)]
    /\ UNCHANGED <<trackerVars, uploadVars, input>>

CallParseHintsFromContent_HeaderAware ==
    /\ input.kind = "text"
    /\ output = NoOutput
    /\ output' = [fn |-> "parseHintsFromContent_HeaderAware",
                  value |-> parseHintsFromContent_HeaderAware(input.text)]
    /\ UNCHANGED <<trackerVars, uploadVars, input>>

ParseNext ==
    \/ CallParseHintsFromText
    \/ CallParseHintsFromContent_ColonRows
    \/ CallParseHintsFromContent_HeaderAware

ParseSpec == ParseInit /\ [][ParseNext]_vars

\* a line of the form: one letter, then ':', '-' or white space, then more
HasRowForm(line) ==
    LET l == trim(line)
    IN  /\ Len(l) >= 3
        /\ IsLetter(l[1])
        /\ l[2] \in {":", "-", " ", "\t"}

NoRowLine(text) ==
    \A i \in 1..Len(splitLines(text)) : ~HasRowForm(splitLines(text)[i])

\* C9: each of the three parsers that answer null returns null for a text in
\* which no line has the form of one letter followed by ':', '-' or white
\* space and then further content.
C9_FailsClosed ==
    (/\ output.fn \in {"parseHintsFromText", "parseHintsFromContent_ColonRows",
                       "parseHintsFromContent_HeaderAware"}
     /\ NoRowLine(input.text))
    => output.value.isNull

\* C10: parseHintsFromText returns null when no letter row stores a positive
\* count; a result that is not null holds a letter whose cell map is not empty.
C10_NoStoredCell ==
    (output.fn = "parseHintsFromText" /\ ~output.value.isNull)
    => \E letter \in DOMAIN output.value.hintsData :
           DOMAIN output.value.hintsData[letter] # {}

----------------------------------------------------------------------------
(* The hints loaders: HintsFetcher.parseHints and HintsImageUpload *)

CouldNotParse == "Could not parse hints"

HintsLoaded == "Hints Loaded!"

ProcessingFailed == "Processing failed"

\* texts pasted into the hints box or recognised on a hints screenshot
LoaderTexts ==
    { \* D E L M N P U / d: 2 1 - 3 / Pangrams: 1
      joinLines(<< <<"D"," ","E"," ","L"," ","M"," ","N"," ","P"," ","U">>,
                   <<"d",":"," ","2"," ","1"," ","-"," ","3">>,
                   <<"P","a","n","g","r","a","m","s",":"," ","1">> >>),
      \* A 2 1 3 / B 1 1 2 / AB-1 ab: 2
      joinLines(<< <<"A"," ","2"," ","1"," ","3">>,
                   <<"B"," ","1"," ","1"," ","2">>,
                   <<"A","B","-","1"," ","a","b",":"," ","2">> >>),
      \* a: 1 - 2 3
      <<"a",":"," ","1"," ","-"," ","2"," ","3">>,
      \* no hints today
      <<"n","o"," ","h","i","n","t","s"," ","t","o","d","a","y">> }

\* texts pasted into the two-letter box
TwoLetterTexts ==
    { <<>>,
      \* AB: 3 / AB: 2 BA-1
      joinLines(<< <<"A","B",":"," ","3">>,
                   <<"A","B",":"," ","2"," ","B","A","-","1">> >>) }

\* the return after the toast left out: an empty grid is handed on
fetcherDelivers_NoReturn(parsed, parsedTwoLetterList) ==
    /\ handleHintsLoaded(IF parsed.isNull THEN EmptyMap ELSE parsed.hintsData,
                         IF parsed.isNull THEN 0 ELSE parsed.totalWords,
                         parsedTwoLetterList, 0, <<>>)
    /\ hintsNotice' = IF parsed.isNull THEN CouldNotParse ELSE HintsLoaded

\* the end of parseHints: null ends the run with a destructive toast; a grid
\* goes to onHintsLoaded with three arguments, which leaves the pangram count
\* and the allowed letters of handleHintsLoaded without a value
fetcherDelivers(parsed, parsedTwoLetterList) ==
    IF parsed.isNull
    THEN /\ hintsNotice' = CouldNotParse
         /\ UNCHANGED trackerVars
    ELSE /\ handleHintsLoaded(parsed.hintsData, parsed.totalWords,
                              parsedTwoLetterList, 0, <<>>)
         /\ hintsNotice' = HintsLoaded

\* "Parse Hints" of the HintsFetcher whose rows read "letter: counts"; the
\* run has no await, so isLoading is never rendered as true
ParseHints_ColonRows(hintsText, twoLetterText) ==
    /\ ~showNewDayDialog
    /\ ~hasLoadedHints
    /\ trim(hintsText) # <<>>
    /\ fetcherDelivers(parseHintsFromContent_ColonRows(trim(hintsText)),
                       parseTwoLetterList_Lines(trim(twoLetterText)))
    /\ UNCHANGED <<uploadedFile, hintsIsProcessing, hintsTasks, clearTimers,
                   isLoading>>
    /\ UNCHANGED callVars

\* "Parse Hints" of the HintsFetcher whose rows stand under a header
ParseHints_HeaderAware(hintsText, twoLetterText) ==
    /\ ~showNewDayDialog
    /\ ~hasLoadedHints
    /\ trim(hintsText) # <<>>
    /\ fetcherDelivers(parseHintsFromContent_HeaderAware(trim(hintsText)),
                       parseTwoLetterList_Flat(trim(twoLetterText)))
    /\ UNCHANGED <<uploadedFile, hintsIsProcessing, hintsTasks, clearTimers,
                   isLoading>>
    /\ UNCHANGED callVars

\* an image dropped on, or picked through, the drop zone, which is rendered
\* while no file is held: the file is kept and processImage runs up to its
\* first await
HandleFileUpload ==
    /\ ~uploadedFile
    /\ Len(hintsTasks) + clearTimers < MaxUploads
    /\ uploadedFile' = TRUE
    /\ hintsIsProcessing' = TRUE
    /\ hintsTasks' = Append(hintsTasks, [live |-> TRUE])
    /\ UNCHANGED <<hintsNotice, clearTimers, isLoading>>
    /\ UNCHANGED <<trackerVars, callVars>>

\* the OCR worker answered with `text`: the rest of processImage, finally
\* included; the state setters of a run whose component is gone do nothing
FinishProcessImage(i, text) ==
    /\ i \in 1..Len(hintsTasks)
    /\ \E hintsResult \in {parseHintsFromText(text)} :
          IF hintsResult.isNull
          THEN /\ hintsNotice' = CouldNotParse
               /\ UNCHANGED trackerVars
               /\ UNCHANGED clearTimers
          ELSE /\ handleHintsLoaded(hintsResult.hintsData,
                                    hintsResult.totalWords,
                                    parseTwoLetterList_Upload(text),
                                    hintsResult.pangrams,
                                    hintsResult.allowedLetters)
               /\ hintsNotice' = HintsLoaded
               /\ clearTimers' = IF hintsTasks[i].live THEN clearTimers + 1
                                 ELSE clearTimers
    /\ hintsIsProcessing' = IF hintsTasks[i].live THEN FALSE
                            ELSE hintsIsProcessing
    /\ hintsTasks' = RemoveAt(hintsTasks, i)
    /\ UNCHANGED <<uploadedFile, isLoading>>
    /\ UNCHANGED callVars

\* the catch of processImage without the finally
FailProcessImage_NoFinally(i) ==
    /\ i \in 1..Len(hintsTasks)
    /\ hintsNotice' = ProcessingFailed
    /\ hintsTasks' = RemoveAt(hintsTasks, i)
    /\ UNCHANGED <<uploadedFile, hintsIsProcessing, clearTimers, isLoading>>
    /\ UNCHANGED <<trackerVars, callVars>>

\* the OCR worker threw: the catch and the finally of processImage
FailProcessImage(i) ==
    /\ i \in 1..Len(hintsTasks)
    /\ hintsNotice' = ProcessingFailed
    /\ hintsIsProcessing' = IF hintsTasks[i].live THEN FALSE
                            ELSE hintsIsProcessing
    /\ hintsTasks' = RemoveAt(hintsTasks, i)
    /\ UNCHANGED <<uploadedFile, clearTimers, isLoading>>
    /\ UNCHANGED <<trackerVars, callVars>>

\* the X on the preview, rendered while a file is held and nothing is processed
RemoveFile ==
    /\ uploadedFile
    /\ ~hintsIsProcessing
    /\ uploadedFile' = FALSE
    /\ UNCHANGED <<hintsNotice, hintsIsProcessing, hintsTasks, clearTimers,
                   isLoading>>
    /\ UNCHANGED <<trackerVars, callVars>>

\* a timeout set two seconds earlier by a run that loaded hints fires
ClearUploadedFile ==
    /\ clearTimers > 0
    /\ clearTimers' = clearTimers - 1
    /\ uploadedFile' = FALSE
    /\ UNCHANGED <<hintsNotice, hintsIsProcessing, hintsTasks, isLoading>>
    /\ UNCHANGED <<trackerVars, callVars>>

\* the parent stops rendering the component and later renders a new one: the
\* runs in flight outlive it, its timeouts no longer change anything
RemountHintsImageUpload ==
    /\ uploadedFile \/ hintsIsProcessing \/ clearTimers > 0
    /\ uploadedFile' = FALSE
    /\ hintsIsProcessing' = FALSE
    /\ clearTimers' = 0
    /\ hintsTasks' = [i \in 1..Len(hintsTasks) |-> [live |-> FALSE]]
    /\ UNCHANGED <<hintsNotice, isLoading>>
    /\ UNCHANGED <<trackerVars, callVars>>

LoadNext ==
    \/ \E sessionData \in SessionData : LoadExistingSession(sessionData)
    \/ NoExistingSession
    \/ \E t \in LoaderTexts, t2 \in TwoLetterTexts : ParseHints_ColonRows(t, t2)
    \/ \E t \in LoaderTexts, t2 \in TwoLetterTexts : ParseHints_HeaderAware(t, t2)
    \/ HandleFileUpload
    \/ \E i \in 1..MaxUploads, t \in LoaderTexts : FinishProcessImage(i, t)
    \/ \E i \in 1..MaxUploads : FailProcessImage(i)
    \/ RemoveFile
    \/ ClearUploadedFile
    \/ \E w \in WordInputs : AddManualWord(w)
    \/ ResetProgress
    \/ KeepOldPuzzle
    \/ \E w \in UpperWords : RemoveWord(w)
    \/ \E w \in UpperWords : RemoveInvalidWord(w)
    \/ RemoveAllValidWords
    \/ RemoveAllInvalidWords

LoadSpec == Init /\ [][LoadNext]_vars

\* what a hints load writes in WordTracker
PuzzleState ==
    <<hintsData, totalPossibleWords, twoLetterList, pangrams, allowedLetters,
      foundWords, invalidWords, foundPangrams>>

\* a step in which a loader raised the "Could not parse hints" notification:
\* the notification is new, or a run of processImage ended with it
ParseFailureStep ==
    /\ hintsNotice' = CouldNotParse
    /\ hintsNotice # CouldNotParse \/ Len(hintsTasks') < Len(hintsTasks)

\* C11: a run of parseHints or of processImage whose parser returned null,
\* which ends with the "Could not parse hints" notification, has not called
\* onHintsLoaded: hintsData, totalPossibleWords, twoLetterList, the pangram
\* count, allowedLetters, foundWords, invalidWords and foundPangrams are as
\* they were, and so are hasLoadedHints and totalPoints.
C11_ParseFailure ==
    [][ParseFailureStep
         => UNCHANGED <<PuzzleState, hasLoadedHints, totalPoints>>]_vars

\* C11 witness: the failure notification stands while the puzzle loaded
\* before it and the words recorded for it are all still held
C11_Witness ==
    /\ hintsNotice = CouldNotParse
    /\ hintsData # EmptyMap
    /\ foundWords # <<>>
    /\ invalidWords # <<>>
    /\ foundPangrams # <<>>

WordSets == <<foundWords, invalidWords, foundPangrams>>

\* what one successful load hands to handleHintsLoaded: the grid, the total,
\* the two-letter list, the pangram count and the allowed letters
ParsedPuzzles ==
    {<<parseHintsFromContent_ColonRows(trim(t)).hintsData,
       parseHintsFromContent_ColonRows(trim(t)).totalWords,
       parseTwoLetterList_Lines(trim(t2)), 0, {}>> :
        t \in {x \in LoaderTexts :
                  ~parseHintsFromContent_ColonRows(trim(x)).isNull},
        t2 \in TwoLetterTexts}
    \cup
    {<<parseHintsFromContent_HeaderAware(trim(t)).hintsData,
       parseHintsFromContent_HeaderAware(trim(t)).totalWords,
       parseTwoLetterList_Flat(trim(t2)), 0, {}>> :
        t \in {x \in LoaderTexts :
                  ~parseHintsFromContent_HeaderAware(trim(x)).isNull},
        t2 \in TwoLetterTexts}
    \cup
    {<<parseHintsFromText(t).hintsData, parseHintsFromText(t).totalWords,
       parseTwoLetterList_Upload(t), parseHintsFromText(t).pangrams,
       Range(parseHintsFromText(t).allowedLetters)>> :
        t \in {x \in LoaderTexts : ~parseHintsFromText(x).isNull}}

\* a step in which a loader called handleHintsLoaded: hints appear without
\* the session restore having ended, or a run of processImage ended with the
\* "Hints Loaded!" notification
HintsLoadStep ==
    \/ ~hasLoadedHints /\ hasLoadedHints' /\ UNCHANGED sessionLoad
    \/ Len(hintsTasks') < Len(hintsTasks) /\ hintsNotice' = HintsLoaded

\* a step of one of the handlers that add or remove words or reset the puzzle
ExplicitWordStep ==
    \/ \E w \in WordInputs : AddManualWord(w)
    \/ \E w \in UpperWords : RemoveWord(w)
    \/ \E w \in UpperWords : RemoveInvalidWord(w)
    \/ RemoveAllValidWords
    \/ RemoveAllInvalidWords
    \/ ResetProgress

\* C12: a hints load sets hintsData, totalPossibleWords, twoLetterList, the
\* pangram count and allowedLetters together to the values of one parse and
\* empties foundWords, invalidWords and foundPangrams; while hints are loaded
\* the three word sets change only in a step that adds words, removes one or
\* all of them, resets the puzzle or loads hints anew.
C12_WholesaleReplace ==
    [][/\ HintsLoadStep
          => /\ <<hintsData, totalPossibleWords, twoLetterList, pangrams,
                  allowedLetters>>' \in ParsedPuzzles
             /\ WordSets' = << <<>>, <<>>, <<>> >>
       /\ (hasLoadedHints /\ WordSets' # WordSets)
          => (HintsLoadStep \/ ExplicitWordStep)]_vars

----------------------------------------------------------------------------
(* The upload components and the runs they start *)

ProcessingWithAI == "Processing with AI..."

\* "Process Hints with AI" clicked with text in the box: processTextWithAI up
\* to its await
StartProcessTextWithAI ==
    /\ ~showNewDayDialog
    /\ hasLoadedHints
    /\ ~isProcessing
    /\ StaleTasks(ocrTasks) <= MaxStaleTasks
    /\ isProcessing' = TRUE
    /\ ocrTasks' = Append(ocrTasks, [kind |-> "text",
                                     letters |-> allowedLetters, live |-> TRUE])
    /\ hintsNotice' = ProcessingWithAI
    /\ UNCHANGED <<foundWords, invalidWords, foundPangrams, allowedLetters,
                   hintsData, totalPossibleWords, hasLoadedHints, twoLetterList,
                   pangrams, showNewDayDialog, totalPoints, sessionLoad>>
    /\ UNCHANGED <<uploadedFile, hintsIsProcessing, hintsTasks, clearTimers,
                   isLoading>>
    /\ UNCHANGED callVars

\* the parse-hints function answered or failed: an error, an answer without
\* success and an empty grid throw, and so does the call of onHintsLoaded,
\* which WordTracker does not pass to ImageUpload; the catch and the finally
FinishProcessTextWithAI(i) ==
    /\ i \in 1..Len(ocrTasks)
    /\ ocrTasks[i].kind = "text"
    /\ hintsNotice' = ProcessingFailed
    /\ isProcessing' = IF ocrTasks[i].live THEN FALSE ELSE isProcessing
    /\ ocrTasks' = RemoveAt(ocrTasks, i)
    /\ UNCHANGED <<foundWords, invalidWords, foundPangrams, allowedLetters,
                   hintsData, totalPossibleWords, hasLoadedHints, twoLetterList,
                   pangrams, showNewDayDialog, totalPoints, sessionLoad>>
    /\ UNCHANGED <<uploadedFile, hintsIsProcessing, hintsTasks, clearTimers,
                   isLoading>>
    /\ UNCHANGED callVars

UploadNext ==
    \/ HandleFileUpload
    \/ \E i \in 1..MaxUploads, t \in LoaderTexts : FinishProcessImage(i, t)
    \/ \E i \in 1..MaxUploads : FailProcessImage(i)
    \/ RemoveFile
    \/ ClearUploadedFile
    \/ RemountHintsImageUpload
    \/ StartProcessProgressImage
    \/ \E i \in 1..(MaxStaleTasks + 1), ws \in ExtractedWordLists :
            FinishProcessProgressImage(i, ws)
    \/ StartProcessTextWithAI
    \/ \E i \in 1..(MaxStaleTasks + 1) : FinishProcessTextWithAI(i)
    \/ ResetProgress

UploadSpec == Init /\ [][UploadNext]_vars

\* the runs in flight that a component still mounted has started
LiveRuns(tasks) == Len(SelectSeq(tasks, LAMBDA t : t.live))

\* C13: no upload component has two of its runs in flight at once: of the
\* runs of processImage at most one belongs to the mounted HintsImageUpload,
\* and of the runs of processProgressImage and processTextWithAI at most one
\* belongs to the mounted ImageUpload.
C13_OneRunPerComponent ==
    /\ LiveRuns(hintsTasks) <= 1
    /\ LiveRuns(ocrTasks) <= 1

----------------------------------------------------------------------------
(* parseHintsFromText: the allowed letters and the letter rows *)

\* the letters of a line, in upper case
lineLetters(line) ==
    {UpperChar(line[i]) : i \in {j \in 1..Len(line) : IsLetter(line[j])}}

\* C14: the allowedLetters that parseHintsFromText returns is empty or is
\* exactly 7 distinct upper-case letters, each taken from the first non-empty
\* line; a first line with fewer than 7 letters leaves it empty.
C14_AllowedLetters ==
    (output.fn = "parseHintsFromText" /\ ~output.value.isNull)
    => LET allowed == output.value.allowedLetters
           firstLine == textLines(input.text)[1]
       IN  /\ \/ allowed = <<>>
              \/ /\ Len(allowed) = 7
                 /\ Cardinality(Range(allowed)) = 7
                 /\ \A i \in 1..7 : IsUpper(allowed[i])
                 /\ Range(allowed) \subseteq lineLetters(firstLine)
           /\ Cardinality(lineLetters(firstLine)) < 7 => allowed = <<>>

\* a line that is a letter row with a cell token left after the last is cut
IsDataRow(line) ==
    /\ ~pangramMatch(line).matched
    /\ letterMatch(line).matched
    /\ IsUpper(UpperChar(letterMatch(line).group1))
    /\ Len(split(letterMatch(line).group2, {" ", "\t", "|", ",", ";"})) >= 2

\* C15: when the first line gave no allowed letters, parseHintsFromText still
\* reads every letter row: the result is not null and holds the row's letter.
C15_RowGuard ==
    (/\ output.fn = "parseHintsFromText"
     /\ firstLineLetters(textLines(input.text)) = <<>>)
    => \A i \in 1..Len(textLines(input.text)) :
          IsDataRow(textLines(input.text)[i])
          => /\ ~output.value.isNull
             /\ UpperChar(textLines(input.text)[i][1])
                    \in DOMAIN output.value.hintsData

\* the cell tokens of a letter row, the last one included
rowTokens(line) ==
    LET pieces == split(letterMatch(line).group2, {" ", "\t", "|", ",", ";"})
    IN  SelectSeq([i \in 1..Len(pieces) |-> trim(pieces[i])],
                  LAMBDA v : Len(v) > 0)

\* the last token of the row is a count that is not the sum of those before
LastIsNoTotal(line) ==
    LET tokens == rowTokens(line)
        last == cellCount(tokens[Len(tokens)], TextZeroMarkers)
    IN  /\ ~last.nan
        /\ last.val > 0
        /\ last.val # rowOf(sliceDropLast(tokens), TextZeroMarkers).words

\* C16: the basic grid parses to the letters D E L M N P U, the grid
\* D: {4: 2, 5: 1}, P: {4: 3, 5: 2, 6: 1, 7: 8} and 17 words; and in every
\* text, the last count of a row of an allowed letter is stored as a cell
\* unless it equals the sum of the counts before it.
C16_BasicGrid ==
    output.fn = "parseHintsFromText"
    => /\ input.text = BasicGridText
          => /\ ~output.value.isNull
             /\ output.value.allowedLetters = <<"D","E","L","M","N","P","U">>
             /\ output.value.hintsData =
                    ("D" :> (4 :> 2 @@ 5 :> 1))
                    @@ ("P" :> (4 :> 3 @@ 5 :> 2 @@ 6 :> 1 @@ 7 :> 8))
             /\ output.value.totalWords = 17
       /\ \A i \in 1..Len(textLines(input.text)) :
             LET line == textLines(input.text)[i]
             IN  (/\ IsDataRow(line)
                  /\ SetHas(firstLineLetters(textLines(input.text)),
                            UpperChar(line[1]))
                  /\ \A j \in (i + 1)..Len(textLines(input.text)) :
                         textLines(input.text)[j][1] # line[1]
                  /\ LastIsNoTotal(line))
                 => /\ ~output.value.isNull
                    /\ (3 + Len(rowTokens(line)))
                           \in DOMAIN output.value.hintsData[UpperChar(line[1])]

----------------------------------------------------------------------------
(* The two-letter list *)

\* the number of found words whose first two characters are the combo
FoundWithCombo(found, combo) ==
    Cardinality({j \in 1..Len(found) :
                    /\ Len(found[j]) >= 2
                    /\ found[j][1] = combo[1]
                    /\ found[j][2] = combo[2]})

\* C17: remainingTwoLetterCounts has one entry per entry of twoLetterList, in
\* the same order, with the entry's combo, originalCount equal to its count and
\* remainingCount equal to the count minus the number of found words that
\* begin with the combo, or 0 when that is negative; remainingCount is at
\* least 0 and at most originalCount.
C17_TwoLetterCounts ==
    LET L == twoLetterList
        R == remainingTwoLetterCounts
    IN  /\ Len(R) = Len(L)
        /\ \A i \in 1..Len(L) :
              LET difference == L[i].count - FoundWithCombo(foundWords, L[i].combo)
              IN  /\ R[i].combo = L[i].combo
                  /\ R[i].originalCount = L[i].count
                  /\ R[i].remainingCount =
                         (IF difference > 0 THEN difference ELSE 0)
                  /\ R[i].remainingCount >= 0
                  /\ R[i].remainingCount <= R[i].originalCount

\* C17 witness: more words found with a combo than the list counted for it,
\* while another combo has some of its words found and some left
C17_Witness ==
    \E i, k \in 1..Len(twoLetterList) :
        /\ twoLetterList[i].count
               < FoundWithCombo(foundWords, twoLetterList[i].combo)
        /\ remainingTwoLetterCounts[i].remainingCount = 0
        /\ remainingTwoLetterCounts[k].remainingCount > 0
        /\ remainingTwoLetterCounts[k].remainingCount
               < remainingTwoLetterCounts[k].originalCount

----------------------------------------------------------------------------
(* The two-letter parsers applied on their own *)

\* lines of the two-letter list of a hints page, as pasted or recognised
ComboLines ==
    {
      \* AB: 3
      <<"A","B",":"," ","3">>,
      \* AB: 2
      <<"A","B",":"," ","2">>,
      \* BA-1
      <<"B","A","-","1">>,
      \* ab ba
      <<"a","b"," ","b","a">>,
      \* AB (3), BA 2
      <<"A","B"," ","(","3",")",","," ","B","A"," ","2">>,
      \* ca: 0
      <<"c","a",":"," ","0">>  }

\* every list of at most n of the lines
RECURSIVE ComboLineListsUpTo(_)
ComboLineListsUpTo(n) ==
    IF n = 0 THEN {<<>>}
    ELSE LET shorter == ComboLineListsUpTo(n - 1)
         IN  shorter \cup {Append(ls, l) : ls \in shorter, l \in ComboLines}

ComboTexts == {joinLines(ls) : ls \in ComboLineListsUpTo(MaxLines)}

TwoLetterInit ==
    /\ TrackerIdle
    /\ UploadIdle
    /\ input \in [kind : {"combos"}, text : ComboTexts]
    /\ output = NoOutput

CallParseTwoLetterList_Upload ==
    /\ input.kind = "combos"
    /\ output = NoOutput
    /\ output' = [fn |-> "parseTwoLetterList_Upload",
                  value |-> parseTwoLetterList_Upload(input.text)]
    /\ UNCHANGED <<trackerVars, uploadVars, input>>

CallParseTwoLetterList_Lines ==
    /\ input.kind = "combos"
    /\ output = NoOutput
    /\ output' = [fn |-> "parseTwoLetterList_Lines",
                  value |-> parseTwoLetterList_Lines(input.text)]
    /\ UNCHANGED <<trackerVars, uploadVars, input>>

CallParseTwoLetterList_Flat ==
    /\ input.kind = "combos"
    /\ output = NoOutput
    /\ output' = [fn |-> "parseTwoLetterList_Flat",
                  value |-> parseTwoLetterList_Flat(input.text)]
    /\ UNCHANGED <<trackerVars, uploadVars, input>>

TwoLetterNext ==
    \/ CallParseTwoLetterList_Upload
    \/ CallParseTwoLetterList_Lines
    \/ CallParseTwoLetterList_Flat

TwoLetterSpec == TwoLetterInit /\ [][TwoLetterNext]_vars

\* a line that is one combo, ':' and a blank or '-', and one digit above 0
IsCountedLine(line) ==
    /\ Len(line) \in {4, 5}
    /\ IsLetter(line[1]) /\ IsLetter(line[2])
    /\ \A i \in 3..(Len(line) - 1) : line[i] \in {":", " ", "-"}
    /\ IsDigit(line[Len(line)])
    /\ DigitValue[line[Len(line)]] > 0

\* the sum of the counts the counted lines of the text give the combo
CountedFor(text, combo) ==
    LET lines == splitLines(text)
    IN  SumSeq([i \in 1..Len(lines) |->
                   IF /\ IsCountedLine(lines[i])
                      /\ <<UpperChar(lines[i][1]), UpperChar(lines[i][2])>> = combo
                   THEN DigitValue[lines[i][Len(lines[i])]]
                   ELSE 0])

\* C18: the list each of the three parseTwoLetterList variants returns holds
\* no combo twice; and for a text whose lines each give one combo with a
\* count, every combo of the text has its entry and the entry's count is the
\* sum of the counts the text gives it ("AB: 3" and "AB: 2" make AB 5).
C18_Accumulation ==
    output.fn \in {"parseTwoLetterList_Upload", "parseTwoLetterList_Lines",
                   "parseTwoLetterList_Flat"}
    => LET list == output.value
           lines == splitLines(input.text)
       IN  /\ \A i, j \in 1..Len(list) :
                 list[i].combo = list[j].combo => i = j
           /\ (input.text # <<>> /\ \A k \in 1..Len(lines) : IsCountedLine(lines[k]))
              => /\ \A i \in 1..Len(list) :
                       list[i].count = CountedFor(input.text, list[i].combo)
                 /\ \A k \in 1..Len(lines) :
                       \E i \in 1..Len(list) :
                           list[i].combo = <<UpperChar(lines[k][1]),
                                             UpperChar(lines[k][2])>>

----------------------------------------------------------------------------
(* The cells of a parsed grid *)

----------------------------------------------------------------------------
(* The remaining grid with no word found *)

AllCellsPositive(grid) ==
    \A letter \in DOMAIN grid : \A length \in DOMAIN grid[letter] :
        grid[letter][length] > 0

\* C20: while foundWords is empty and every cell of hintsData is positive,
\* remainingHintsData equals hintsData: the same letters, the same lengths
\* under each letter and the same counts.
C20_RoundTrip ==
    (foundWords = <<>> /\ AllCellsPositive(hintsData))
    => /\ DOMAIN remainingHintsData = DOMAIN hintsData
       /\ \A letter \in DOMAIN hintsData :
             /\ DOMAIN remainingHintsData[letter] = DOMAIN hintsData[letter]
             /\ \A length \in DOMAIN hintsData[letter] :
                   remainingHintsData[letter][length] = hintsData[letter][length]

----------------------------------------------------------------------------
(* The points of a found list *)

Able == <<"A","B","L","E">>

Puddle == <<"P","U","D","D","L","E">>

\* calculateTotalPoints was handed the found set {ABLE, PUDDLE} with PUDDLE the
\* only pangram
PointsScenario ==
    /\ output.fn = "calculateTotalPoints"
    /\ Range(input.words) = {Able, Puddle}
    /\ Range(input.pangrams) = {Puddle}

\* C21 as claimed: for the found set {ABLE, PUDDLE} with PUDDLE the only
\* pangram calculateTotalPoints returns 17, ABLE counting 4 and PUDDLE 13.
C21_PointsScenario ==
    PointsScenario
    => /\ output.value = 17
       /\ calculateWordPoints(Able, FALSE) = 4
       /\ calculateWordPoints(Puddle, TRUE) = 13

\* C21 as amended: for the found set {ABLE, PUDDLE} with PUDDLE the only
\* pangram calculateTotalPoints returns 14, the four-letter ABLE counting 1
\* and the pangram PUDDLE 6 + 7 = 13, in either order of the two words.
C21_PointsScenarioAmended ==
    PointsScenario
    => /\ output.value = 14
       /\ calculateWordPoints(Able, FALSE) = 1
       /\ calculateWordPoints(Puddle, TRUE) = 13

\* C21 witness: the total of ABLE and PUDDLE, PUDDLE a pangram, was computed
C21_Witness ==
    /\ PointsScenario
    /\ input.words = <<Able, Puddle>>
    /\ output.value = 14

----------------------------------------------------------------------------
(* Results of runs started under an earlier puzzle *)

\* a run of an ImageUpload that has been unmounted since (by resetProgress,
\* before the next load) ended in this step
StaleRunEnds ==
    \E i \in 1..Len(ocrTasks) :
        /\ ~ocrTasks[i].live
        /\ ocrTasks' = RemoveAt(ocrTasks, i)

\* C22: after every step each word of foundWords is valid and each word of
\* invalidWords is invalid under the current allowedLetters; and the end of a
\* run of processProgressImage that was started before resetProgress or before
\* a new load puts no word into foundWords, invalidWords or foundPangrams.
C22_StaleResults ==
    [][/\ \A w \in Range(foundWords') : isValidWord(w, allowedLetters')
       /\ \A w \in Range(invalidWords') : ~isValidWord(w, allowedLetters')
       /\ StaleRunEnds => UNCHANGED WordSets]_vars

----------------------------------------------------------------------------
(* The rows of the header-aware parseHintsFromContent *)

\* what stands after the letter of a row, cut at ':' and white space
headerRowTokens(line) ==
    SelectSeq(split(SliceFrom(line, 2), {" ", "\t", ":"}),
              LAMBDA t : Len(t) > 0)

IsCountToken(t) == Len(t) > 0 /\ \A i \in 1..Len(t) : IsDigit(t[i])

IsZeroMarker(t) == t \in {<<"-">>, <<"O">>, <<"0">>}

tokenCount(t) == IF IsZeroMarker(t) THEN 0 ELSE Number(t)

\* the counts the tokens stand for, in their positions
tokenCounts(tokens) == [i \in 1..Len(tokens) |-> tokenCount(tokens[i])]

\* a line that begins with a letter and ':' or white space
BeginsAsRow(line) ==
    /\ Len(line) >= 3
    /\ IsLetter(line[1])
    /\ line[2] \in {":", " ", "\t"}

\* no other line of the text begins with the letter of line i
OnlyRowOfLetter(lines, i) ==
    \A j \in 1..Len(lines) :
        j # i => UpperChar(lines[j][1]) # UpperChar(lines[i][1])

\* the cells the counts make under the columns, position by position
cellsUnder(counts, columns) ==
    LET used == {i \in 1..Len(counts) : i <= Len(columns) /\ counts[i] > 0}
    IN  [length \in {columns[i] : i \in used} |->
            counts[CHOOSE i \in used : columns[i] = length]]

\* a row of counts whose last is the sum of those before it
IsTotalRow(line) ==
    /\ BeginsAsRow(line)
    /\ LET tokens == headerRowTokens(line)
       IN  /\ Len(tokens) >= 2
           /\ \A i \in 1..Len(tokens) : IsCountToken(tokens[i])
           /\ Number(tokens[Len(tokens)])
                  = SumSeq(tokenCounts(sliceDropLast(tokens)))

\* C23: the header-aware parseHintsFromContent stores every row that begins
\* with a letter in upper or lower case and whose last number is the sum of
\* the numbers before it under the upper-cased letter, the last number
\* dropped; a text that is one such row has the last number as totalWords
\* ("e: 2 4 2 8" gives E: {4: 2, 5: 4, 6: 2} and 8 words).
C23_RowTotalAnyCase ==
    output.fn = "parseHintsFromContent_HeaderAware"
    => LET lines == textLines(input.text)
       IN  \A i \in 1..Len(lines) :
              (IsTotalRow(lines[i]) /\ OnlyRowOfLetter(lines, i))
              => /\ ~output.value.isNull
                 /\ UpperChar(lines[i][1]) \in DOMAIN output.value.hintsData
                 /\ output.value.hintsData[UpperChar(lines[i][1])]
                      = cellsUnder(
                            tokenCounts(sliceDropLast(headerRowTokens(lines[i]))),
                            findColumnLengths(lines))
                 /\ Len(lines) = 1
                    => output.value.totalWords
                         = Number(headerRowTokens(lines[i])
                                      [Len(headerRowTokens(lines[i]))])

\* a row in upper case of counts and zero markers, the last token a count
\* that is not the sum of those before it
IsMarkedRow(line) ==
    /\ BeginsAsRow(line)
    /\ IsUpper(line[1])
    /\ LET tokens == headerRowTokens(line)
       IN  /\ Len(tokens) >= 2
           /\ \A i \in 1..Len(tokens) :
                 IsCountToken(tokens[i]) \/ IsZeroMarker(tokens[i])
           /\ \E i \in 1..Len(tokens) : IsZeroMarker(tokens[i])
           /\ tokenCount(tokens[Len(tokens)])
                  # SumSeq(tokenCounts(sliceDropLast(tokens)))

\* C24: the header-aware parseHintsFromContent maps the token at position i
\* of a row to columnLengths[i], a zero marker taking its position like a
\* count: with the columns 4, 5, 6 the row "A 2 - 1" gives A: {4: 2, 6: 1}.
C24_PositionalColumns ==
    output.fn = "parseHintsFromContent_HeaderAware"
    => LET lines == textLines(input.text)
       IN  \A i \in 1..Len(lines) :
              (IsMarkedRow(lines[i]) /\ OnlyRowOfLetter(lines, i))
              => /\ ~output.value.isNull
                 /\ lines[i][1] \in DOMAIN output.value.hintsData
                 /\ output.value.hintsData[lines[i][1]]
                      = cellsUnder(tokenCounts(headerRowTokens(lines[i])),
                                   findColumnLengths(lines))

----------------------------------------------------------------------------
(* HintsFetcher, the variant that loads from a URL *)

\* line.includes(word) on the line in lower case
includes(line, word) == \E i \in 1..Len(line) : ReadsAt(line, i, word)

\* a line that opens the hints section
isSectionMarker(line) ==
    \/ includes(line, <<"H","I","N","T">>)
    \/ includes(line, <<"G","R","I","D">>)
    \/ includes(line, <<"L","E","T","T","E","R">>)

\* [0-9\s,]
IsNumberListChar(c) == IsDigit(c) \/ IsSpace(c) \/ c = ","

\* the end of the longest run of characters of the class from position i on
runEnd(line, i, inClass) ==
    LET stop == {j \in i..Len(line) : ~inClass[line[j]]}
    IN  IF stop = {} THEN Len(line) ELSE SetMin(stop) - 1

\* /([a-z])[:\s]+([0-9\s,]+)/i tried at position i: the separators are as
\* many as they can be, and fewer when the list of numbers would be empty
urlLetterMatchAt(line, i) ==
    IF i + 1 > Len(line) \/ ~IsLetter(line[i])
       \/ ~(line[i + 1] = ":" \/ IsSpace(line[i + 1]))
    THEN NoMatch
    ELSE LET chars == Range(line)
             r == runEnd(line, i + 1,
                         [c \in chars |-> c = ":" \/ IsSpace(c)])
         IN  IF r + 1 <= Len(line) /\ IsNumberListChar(line[r + 1])
             THEN [matched |-> TRUE, group1 |-> line[i],
                   group2 |-> SubSeq(line, r + 1,
                                     runEnd(line, r + 1,
                                            [c \in chars |->
                                                IsNumberListChar(c)]))]
             ELSE IF \E k \in (i + 2)..r : IsSpace(line[k])
                  THEN LET k == SetMax({j \in (i + 2)..r : IsSpace(line[j])})
                       IN  [matched |-> TRUE, group1 |-> line[i],
                            group2 |-> SubSeq(line, k,
                                              runEnd(line, k,
                                                     [c \in chars |->
                                                         IsSpace(c)]))]
                  ELSE NoMatch

\* line.match(...): the match at the first position that has one
urlLetterMatch(line) ==
    LET at == {i \in 1..Len(line) : urlLetterMatchAt(line, i).matched}
    IN  IF at = {} THEN NoMatch ELSE urlLetterMatchAt(line, SetMin(at))

\* the row the numbers make: number idx (from 0) is length 4 + idx
urlRowOf(numbers) ==
    LET stored == {i \in 1..Len(numbers) : numbers[i] > 0}
    IN  [cells |-> [length \in {3 + i : i \in stored} |-> numbers[length - 3]],
         words |-> SumSeq([i \in 1..Len(numbers) |->
                              IF i \in stored THEN numbers[i] ELSE 0])]

\* the body of the loop over the lines
urlLineStep(acc, line) ==
    IF isSectionMarker(line) THEN [acc EXCEPT !.inHintsSection = TRUE]
    ELSE IF ~acc.inHintsSection \/ ~urlLetterMatch(line).matched THEN acc
    ELSE LET letter == UpperChar(urlLetterMatch(line).group1)
             numbers == digitRuns(urlLetterMatch(line).group2)
         IN  IF Len(numbers) > 0
             THEN [acc EXCEPT
                     !.hintsData = (letter :> urlRowOf(numbers).cells)
                                     @@ acc.hintsData,
                     !.totalWords = acc.totalWords + urlRowOf(numbers).words]
             ELSE acc

RECURSIVE urlLoop(_)
urlLoop(lines) ==
    IF lines = <<>>
    THEN [hintsData |-> EmptyMap, totalWords |-> 0, inHintsSection |-> FALSE]
    ELSE urlLineStep(urlLoop(sliceDropLast(lines)), lines[Len(lines)])

SampleLetters == <<"B", "E", "H", "L", "N", "O", "W">>

\* Math.random() in twelfths: draw k stands for a value in [k/12, (k+1)/12)
RandomDraws == 0..11

\* the sample row of letter number n, from the four draws it takes:
\* Math.floor(r * 4) + 1, Math.floor(r * 3) + 1, Math.floor(r * 2) twice
sampleRow(random, n) ==
    LET counts == << (random[4 * n - 3] \div 3) + 1,
                     (random[4 * n - 2] \div 4) + 1,
                     random[4 * n - 1] \div 6,
                     random[4 * n] \div 6 >>
    IN  urlRowOf(counts)

\* the fallback: a row of random counts for each of seven fixed letters
sampleGrid(random) ==
    [hintsData |-> [letter \in Range(SampleLetters) |->
                       sampleRow(random,
                                 CHOOSE n \in 1..7 : SampleLetters[n] = letter)
                           .cells],
     totalWords |-> SumSeq([n \in 1..7 |-> sampleRow(random, n).words])]

\* parseHintsFromContent of the URL variant, with the values Math.random gives
parseHintsFromContent_Url(content, random) ==
    LET acc == urlLoop(splitLines(content))
    IN  IF Cardinality(DOMAIN acc.hintsData) = 0
        THEN [isNull |-> FALSE, hintsData |-> sampleGrid(random).hintsData,
              totalWords |-> sampleGrid(random).totalWords]
        ELSE [isNull |-> FALSE, hintsData |-> acc.hintsData,
              totalWords |-> acc.totalWords]

\* the grid fetchHints hands over
fallbackHints ==
    ("B" :> (4 :> 3 @@ 5 :> 2 @@ 6 :> 1))
    @@ ("E" :> (4 :> 2 @@ 5 :> 3 @@ 6 :> 2 @@ 7 :> 1))
    @@ ("H" :> (4 :> 2 @@ 5 :> 1 @@ 6 :> 1))
    @@ ("L" :> (4 :> 1 @@ 5 :> 2 @@ 6 :> 1))
    @@ ("N" :> (4 :> 2 @@ 5 :> 1))
    @@ ("O" :> (4 :> 1 @@ 5 :> 2 @@ 6 :> 1))
    @@ ("W" :> (4 :> 3 @@ 5 :> 2 @@ 7 :> 1))

\* Object.values(...).flatMap(...).reduce((sum, count) => sum + count, 0)
RECURSIVE sumOfCells(_, _)
sumOfCells(grid, letters) ==
    IF letters = {} THEN 0
    ELSE LET letter == CHOOSE l \in letters : TRUE
         IN  SumSeq([i \in 1..9 |->
                        IF (3 + i) \in DOMAIN grid[letter]
                        THEN grid[letter][3 + i] ELSE 0])
               + sumOfCells(grid, letters \ {letter})

fallbackTotal == sumOfCells(fallbackHints, DOMAIN fallbackHints)

\* lines of the page behind the URL
UrlLines ==
    {
      \* Hints grid
      <<"H","i","n","t","s"," ","g","r","i","d">>,
      \* a: 3, 2, 1
      <<"a",":"," ","3",","," ","2",","," ","1">>,
      \* B 4 0 5
      <<"B"," ","4"," ","0"," ","5">>,
      \* No page today
      <<"N","o"," ","p","a","g","e"," ","t","o","d","a","y">>,
      \* x:  y: 7
      <<"x",":"," "," ","y",":"," ","7">>  }

RECURSIVE UrlLineListsUpTo(_)
UrlLineListsUpTo(n) ==
    IF n = 0 THEN {<<>>}
    ELSE LET shorter == UrlLineListsUpTo(n - 1)
         IN  shorter \cup {Append(ls, l) : ls \in shorter, l \in UrlLines}

UrlContents == {joinLines(ls) : ls \in UrlLineListsUpTo(MaxLines)}

\* what stands in the URL box: nothing, or an address
Urls == { <<>>, <<"n","y","t","b","e","e",".","c","o","m">> }

\* the values Math.random gives to the 28 draws of one fallback
RandomStreams ==
    { [i \in 1..28 |-> 0], [i \in 1..28 |-> 11], [i \in 1..28 |-> (5 * i) % 12] }

UrlInit ==
    /\ TrackerIdle
    /\ UploadIdle
    /\ input \in [kind : {"url"}, url : Urls, content : UrlContents,
                  random : RandomStreams]
    /\ output = NoOutput

CallParseHintsFromContent_Url ==
    /\ input.kind = "url"
    /\ output = NoOutput
    /\ output' = [fn |-> "parseHintsFromContent_Url",
                  value |-> parseHintsFromContent_Url(input.content,
                                                      input.random)]
    /\ UNCHANGED <<trackerVars, uploadVars, input>>

\* "Fetch Hints", enabled while nothing loads and the URL box is not blank:
\* fetchHints up to its await
FetchHints ==
    /\ input.kind = "url"
    /\ ~isLoading
    /\ trim(input.url) # <<>>
    /\ isLoading' = TRUE
    /\ UNCHANGED <<hintsNotice, uploadedFile, hintsIsProcessing, hintsTasks,
                   clearTimers>>
    /\ UNCHANGED <<trackerVars, callVars>>

\* the delay has passed: the rest of fetchHints, finally included; the call of
\* onHintsLoaded is kept as the output of the component
FinishFetchHints ==
    /\ input.kind = "url"
    /\ isLoading
    /\ output' = [fn |-> "onHintsLoaded",
                  value |-> [isNull |-> FALSE, hintsData |-> fallbackHints,
                             totalWords |-> fallbackTotal]]
    /\ hintsNotice' = HintsLoaded
    /\ isLoading' = FALSE
    /\ UNCHANGED <<uploadedFile, hintsIsProcessing, hintsTasks, clearTimers>>
    /\ UNCHANGED <<trackerVars, input>>

UrlNext ==
    \/ CallParseHintsFromContent_Url
    \/ FetchHints
    \/ FinishFetchHints

UrlSpec == UrlInit /\ [][UrlNext]_vars

\* every letter of the grid stands in the text and every count is a number
\* written in it
DerivedFrom(grid, text) ==
    \A letter \in DOMAIN grid :
        /\ letter \in lineLetters(text)
        /\ \A length \in DOMAIN grid[letter] :
               grid[letter][length] \in Range(digitRuns(text))

\* C25: the URL variant of HintsFetcher hands to onHintsLoaded, and its
\* parseHintsFromContent returns, only a grid whose letters and counts stand
\* in the page it was given; for a page in which no number is written its
\* parser returns null and it does not call onHintsLoaded.
C25_NoFabricatedGrid ==
    output.fn \in {"parseHintsFromContent_Url", "onHintsLoaded"}
    => /\ ~output.value.isNull
          => DerivedFrom(output.value.hintsData, input.content)
       /\ digitRuns(input.content) = <<>> => output.value.isNull

----------------------------------------------------------------------------
(* Session restore and live classification *)

\* a step of loadExistingSession with a stored session
SessionRestored == \E sessionData \in SessionData : LoadExistingSession(sessionData)

\* C26: the foundPangrams that loadExistingSession rebuilds is the set of the
\* restored found words that isPangram accepts under the restored
\* allowedLetters, whatever the restored allowedLetters is, empty included.
C26_RestoredPangrams ==
    [][SessionRestored
       => Range(foundPangrams')
            = {w \in Range(foundWords') : isPangram(w, allowedLetters')}]_vars

----------------------------------------------------------------------------
(* totalWords of parseHintsFromText against the grid it returns *)

\* C27: on every input on which parseHintsFromText succeeds, a letter on
\* more than one row included, the totalWords it returns is the sum of all
\* the counts stored in the grid it returns.
C27_TotalMatchesGrid ==
    (output.fn = "parseHintsFromText" /\ ~output.value.isNull)
    => output.value.totalWords
         = sumOfCells(output.value.hintsData, DOMAIN output.value.hintsData)

----------------------------------------------------------------------------
(* The pangram set inside the found set *)

\* C28: in every reachable state of WordTracker, every word of foundPangrams
\* is a word of foundWords.
C28_PangramsAreFound == Range(foundPangrams) \subseteq Range(foundWords)

\* a pangram and a word that is none have been found
C28_Witness == foundPangrams # <<>> /\ Len(foundWords) > Len(foundPangrams)

----------------------------------------------------------------------------
(* A word added and removed again *)

\* the word state with the views derived from it
WordViews(st) ==
    [ state |-> st,
      remainingHintsData |-> remainingHintsDataOf(hintsData, st.foundWords),
      remainingTwoLetterCounts |->
          remainingTwoLetterCountsOf(twoLetterList, st.foundWords) ]

\* the step adds one word to the two lists taken together
OneWordMore ==
    Len(foundWords') + Len(invalidWords')
      = Len(foundWords) + Len(invalidWords) + 1

\* the word is typed into the manual word box while it is in neither set
SubmitsNewWord(word) ==
    /\ ~SetHas(foundWords, toUpperCase(word))
    /\ ~SetHas(invalidWords, toUpperCase(word))
    /\ AddManualWord(word)

\* the word state after the handler that removes the word from the list in
\* which the submission has put it
removedAgain(st, word) ==
    IF SetHas(st.foundWords, word) THEN removeWordResult(st, word)
    ELSE removeInvalidWordResult(st, word)

\* C29: when a word that is in neither foundWords nor invalidWords is
\* submitted, it stands in one of the two sets, the hints (hintsData,
\* twoLetterList, pangrams, allowedLetters) are untouched, and removing it
\* with removeWord or removeInvalidWord gives back foundWords, invalidWords,
\* foundPangrams, totalPoints, the remaining grid and the remaining
\* two-letter counts as they were before the submission.
C29_AddRemoveRoundTrip ==
    [][\A word \in {w \in WordInputs : OneWordMore} :
           SubmitsNewWord(word)
           => /\ SetHas(foundWords', toUpperCase(word))
                 \/ SetHas(invalidWords', toUpperCase(word))
              /\ UNCHANGED <<hintsData, twoLetterList, pangrams, allowedLetters>>
              /\ WordViews(removedAgain(WordState', toUpperCase(word)))
                   = WordViews(WordState)]_vars

\* a pangram has just been added after another word, and a word was rejected
C29_Witness ==
    /\ hasLoadedHints
    /\ Len(foundWords) >= 2
    /\ SetHas(foundPangrams, foundWords[Len(foundWords)])
    /\ invalidWords # <<>>

----------------------------------------------------------------------------
(* The upload components when every external call comes back *)

\* the OCR call of the run at place i of the HintsImageUpload runs returns or
\* throws
ProcessImageEnds(i) ==
    /\ i \in 1..Len(hintsTasks)
    /\ hintsTasks' = RemoveAt(hintsTasks, i)
    /\ \/ FailProcessImage(i)
       \/ \E t \in LoaderTexts : FinishProcessImage(i, t)

\* what the OCR of a progress screenshot yields here: no word, or one
RecognisedWordLists == {ws \in ExtractedWordLists : Len(ws) <= 1}

\* the OCR or AI call of the run at place i of the ImageUpload runs returns
\* or throws
ImageUploadRunEnds(i) ==
    /\ i \in 1..Len(ocrTasks)
    /\ ocrTasks' = RemoveAt(ocrTasks, i)
    /\ \/ FinishProcessTextWithAI(i)
       \/ \E ws \in RecognisedWordLists : FinishProcessProgressImage(i, ws)

\* no external call stays pending for ever: of the calls pending in a
\* component the oldest comes back
CallsComeBack ==
    /\ WF_vars(ProcessImageEnds(1))
    /\ WF_vars(ImageUploadRunEnds(1))

UploadLiveNext ==
    \/ HandleFileUpload
    \/ \E i \in 1..MaxUploads, t \in LoaderTexts : FinishProcessImage(i, t)
    \/ \E i \in 1..MaxUploads : FailProcessImage(i)
    \/ RemoveFile
    \/ ClearUploadedFile
    \/ RemountHintsImageUpload
    \/ StartProcessProgressImage
    \/ \E i \in 1..(MaxStaleTasks + 1), ws \in RecognisedWordLists :
            FinishProcessProgressImage(i, ws)
    \/ StartProcessTextWithAI
    \/ \E i \in 1..(MaxStaleTasks + 1) : FinishProcessTextWithAI(i)
    \/ ResetProgress

UploadLiveSpec == Init /\ [][UploadLiveNext]_vars /\ CallsComeBack

\* C30: when every OCR or AI call returns or throws, the isProcessing of
\* HintsImageUpload and the isProcessing of ImageUpload, once true, become
\* false again: no run of processImage, processProgressImage or
\* processTextWithAI leaves its component locked.
C30_FlagReleased ==
    /\ hintsIsProcessing ~> ~hintsIsProcessing
    /\ isProcessing ~> ~isProcessing

\* runs of both components have ended, the last one on its failure path, and
\* neither flag is set
C30_Witness ==
    /\ hasLoadedHints
    /\ hintsNotice = ProcessingFailed
    /\ hintsTasks = <<>> /\ ocrTasks = <<>>
    /\ ~hintsIsProcessing /\ ~isProcessing

====
